---------------------------- MODULE Spec2Model ----------------------------
(***************************************************************************)
(* Field-validation workflow of src/app: the project store                 *)
(* (instance/projetos.json), the validation store                          *)
(* (instance/validation.json), the inference file (instance/output.json)   *)
(* and the diff report (instance/results.json), with one action per route  *)
(* of src/app/routes.py.                                                   *)
(*                                                                         *)
(* Strings whose prefix the code inspects are sequences of words, so that  *)
(* startswith() and the f-string "Caracteristicas do {item}" are computed. *)
(* A JSON object whose iteration order the code depends on is a sequence   *)
(* of <<key, value>> pairs with distinct keys (a Python dict); the two     *)
(* stores, which are only looked up by key, are functions.                 *)
(***************************************************************************)
EXTENDS Integers, Sequences, FiniteSets, TLC

VARIABLES
    project_data,     \* instance/projetos.json: project -> structure -> attributes
    validation_data,  \* instance/validation.json: the whole document
    output_json,      \* instance/output.json: [exists, doc]
    results_json,     \* instance/results.json: [exists, doc]
    last,             \* the request handled last and its response
    inflight,         \* overlapping requests: client -> the request being handled
    committed,        \* history: (project, structure) -> the verdict saved last
    stale_write       \* history: a save wrote back a snapshot older than the store

vars == <<project_data, validation_data, output_json, results_json, last,
          inflight, committed, stale_write>>

\* The variables that only requests handled in steps change
conc == <<inflight, committed, stale_write>>

stores == <<project_data, validation_data>>

----------------------------------------------------------------------------
(* Bounds of the model *)

\* counts reported under "Quantidades" range over 1..MaxCount
MaxCount == 1

----------------------------------------------------------------------------
(* Python dicts as sequences of <<key, value>> pairs *)

EmptyMap == [k \in {} |-> 0]

EmptyDict == << >>

DictKeys(d) == [i \in 1..Len(d) |-> d[i][1]]

DictKeySet(d) == {d[i][1] : i \in 1..Len(d)}

DictHas(d, k) == \E i \in 1..Len(d) : d[i][1] = k

DictIndex(d, k) == CHOOSE i \in 1..Len(d) : d[i][1] = k

\* d[k]
DictAt(d, k) == d[DictIndex(d, k)][2]

\* d.get(k, default)
DictGet(d, k, default) == IF DictHas(d, k) THEN DictAt(d, k) ELSE default

\* d[k] = v : an existing key keeps its position, a new key is appended
DictPut(d, k, v) ==
    IF DictHas(d, k)
    THEN [d EXCEPT ![DictIndex(d, k)] = <<k, v>>]
    ELSE Append(d, <<k, v>>)

\* Occurrences of x in the sequence s
Count(s, x) == Cardinality({i \in 1..Len(s) : s[i] = x})

----------------------------------------------------------------------------
(* Keys of the inference result *)

CarPrefix == <<"Características", "do">>

QuantKey == <<"Quantidades">>

QuantField == "Quantidade Identificada"

\* item.startswith('Características do')
StartsWithCar(k) ==
    /\ Len(k) >= Len(CarPrefix)
    /\ SubSeq(k, 1, Len(CarPrefix)) = CarPrefix

\* f"Características do {item}"
CarKey(item) == CarPrefix \o item

----------------------------------------------------------------------------
(* results(), GET: the diff between the Gabarito and output.json *)

\* caracteristicas[item] after line 470-477 for a Gabarito item found in output
FoundCar(output, item) ==
    LET car == DictGet(output, CarKey(item), EmptyMap)
        hasQ == DictHas(output, QuantKey) /\ item \in DOMAIN DictAt(output, QuantKey)
        q == DictAt(output, QuantKey)[item]
    IN  IF hasQ
        THEN IF car # EmptyMap
             THEN [f \in DOMAIN car \cup {QuantField} |->
                        IF f = QuantField THEN q ELSE car[f]]
             ELSE [f \in {QuantField} |-> q]
        ELSE car

\* 'Características' entries written by the loop over the Gabarito (467-479)
GabaritoCars(gabarito, output) ==
    LET found == {item \in DOMAIN gabarito :
                      DictHas(output, item) /\ FoundCar(output, item) # EmptyMap}
    IN  [item \in found |-> FoundCar(output, item)]

\* Mutant: the else branch of line 478 is dropped
GabaritoEncontrados_OnlyFound(gabarito, output) ==
    [item \in {i \in DOMAIN gabarito : DictHas(output, i)} |-> "Sim"]

\* Mutant: line 468 tests the detected value instead of the key
GabaritoEncontrados_Truthy(gabarito, output) ==
    [item \in DOMAIN gabarito |->
        IF DictHas(output, item) /\ DictAt(output, item) = TRUE
        THEN "Sim" ELSE "Não"]

\* encontrados after the loop over the Gabarito (467-479)
GabaritoEncontrados(gabarito, output) ==
    [item \in DOMAIN gabarito |-> IF DictHas(output, item) THEN "Sim" ELSE "Não"]

\* Mutant: line 482 without the startswith test
IsExtra_NoPrefixTest(gabarito, item) ==
    /\ item \notin DOMAIN gabarito
    /\ item # QuantKey

\* line 482: the condition under which a detected key is an extra
IsExtra(gabarito, item) ==
    /\ item \notin DOMAIN gabarito
    /\ ~StartsWithCar(item)
    /\ item # QuantKey

\* extras after the loop over output (481-486), as the dict it is built in
RECURSIVE ExtrasLoop(_, _, _, _)
ExtrasLoop(gabarito, output, i, extras) ==
    IF i > Len(output) THEN extras
    ELSE LET item == output[i][1]
         IN  ExtrasLoop(gabarito, output, i + 1,
                 IF IsExtra(gabarito, item)
                 THEN DictPut(extras, item, "Encontrado")
                 ELSE extras)

\* 'Características' entries written by the loop over output (481-486)
ExtraCars(gabarito, output) ==
    LET ex == {item \in DictKeySet(output) :
                   /\ IsExtra(gabarito, item)
                   /\ DictGet(output, CarKey(item), EmptyMap) # EmptyMap}
    IN  [item \in ex |-> DictAt(output, CarKey(item))]

\* results_data of an existing structure (464-492)
ExistingDiff(gabarito, output) ==
    [verificados |-> GabaritoEncontrados(gabarito, output),
     extras |-> DictKeys(ExtrasLoop(gabarito, output, 1, EmptyDict)),
     caracteristicas |-> ExtraCars(gabarito, output) @@ GabaritoCars(gabarito, output)]

\* line 459: the condition under which a detected key is listed for a new structure
IsListed(item) == ~StartsWithCar(item) /\ item # QuantKey

\* results_data of a new structure (457-463)
NewDiff(output) ==
    LET listed == {item \in DictKeySet(output) : IsListed(item)}
        withCar == {item \in listed : DictGet(output, CarKey(item), EmptyMap) # EmptyMap}
    IN  [verificados |-> [item \in listed |-> "Encontrado"],
         extras |-> << >>,
         caracteristicas |-> [item \in withCar |-> DictAt(output, CarKey(item))]]

----------------------------------------------------------------------------
(* Names and request inputs *)

Projects == {"P1", "P2"}

E1 == <<"E1">>
E2 == <<"E2">>
E3 == <<"E3">>

NovaPrefix == <<"Nova", "Estrutura">>

\* str(n) for the numbers the name generator produces
Str(n) == CASE n = 1 -> "1" [] n = 2 -> "2" [] n = 3 -> "3" [] OTHER -> "4"

\* f"Nova Estrutura {n}"
NovaName(n) == NovaPrefix \o <<Str(n)>>

\* key.startswith('Nova Estrutura')
StartsWithNova(k) ==
    /\ Len(k) >= Len(NovaPrefix)
    /\ SubSeq(k, 1, Len(NovaPrefix)) = NovaPrefix

\* A request argument is absent (None) or carries a text
NoArg == << >>
Arg(t) == <<t>>
IsGiven(a) == a # NoArg
TextOf(a) == a[1]

\* Python truthiness of an argument: None and '' are falsy
Truthy(a) == IsGiven(a) /\ TextOf(a) # ""

\* float(text): the texts float() accepts, and the value (in tenths of a degree)
FloatTexts == {"-3.7", "38.5"}
\* Mutant: float() takes every text
IsFloatText_AcceptsAll(t) == TRUE

IsFloatText(t) == t \in FloatTexts
FloatValue(t) == CASE t = "-3.7" -> -37 [] t = "38.5" -> 385 [] OTHER -> 0

\* float(a) returns (TRUE) or raises TypeError / ValueError (FALSE)
FloatOk(a) == IsGiven(a) /\ IsFloatText(TextOf(a))

Comments == {"", "obs"}

----------------------------------------------------------------------------
(* The validation document *)

PENDING == "to_be_validated"

Record(status, comments) == [status |-> status, comments |-> comments]

HasValidations(vd) == "validations" \in DOMAIN vd

\* validation_data.get('validations', {}).get(project, {})
RecordsOf(vd, p) ==
    IF HasValidations(vd) /\ p \in DOMAIN vd.validations
    THEN vd.validations[p]
    ELSE EmptyMap

HasRecord(vd, p, s) == s \in DOMAIN RecordsOf(vd, p)

\* if 'validations' not in validation_data: ...; if project not in ...: ...
EnsureProject(vd, p) ==
    LET v1 == IF HasValidations(vd) THEN vd.validations ELSE EmptyMap
        v2 == IF p \in DOMAIN v1 THEN v1 ELSE (p :> EmptyMap) @@ v1
    IN  [validations |-> v2]

\* validation_data['validations'][project][structure] = rec
SetRecord(vd, p, s, rec) ==
    [validations |-> [vd.validations EXCEPT ![p] = (s :> rec) @@ @]]

\* The name request.args.get() returns for an absent parameter: Python's
\* None, written here as a name no project or structure has
PyNone == "None"

NoneName == <<"None">>

\* json.dump writes a None key as null, which json.load reads as a string;
\* a string key is written and read as it is
ProjectKey(p) == IF p = PyNone THEN "null" ELSE p

StructureKey(s) == IF s = NoneName THEN <<"null">> ELSE s

\* json.load of the records json.dump wrote for one project
StoredRecords(recs) ==
    [k \in {StructureKey(s) : s \in DOMAIN recs} |->
        recs[CHOOSE s \in DOMAIN recs : StructureKey(s) = k]]

\* load_validation_data() after save_validation_data(vd)
Stored(vd) ==
    IF ~HasValidations(vd) THEN vd
    ELSE [validations |->
             [k \in {ProjectKey(p) : p \in DOMAIN vd.validations} |->
                 StoredRecords(vd.validations[CHOOSE p \in DOMAIN vd.validations :
                                                  ProjectKey(p) = k])]]

----------------------------------------------------------------------------
(* The project document *)

Structure(lat, lon, gabarito) ==
    [latitude |-> lat, longitude |-> lon, Gabarito |-> gabarito]

HasStructure(pd, p, s) == p \in DOMAIN pd /\ s \in DOMAIN pd[p]

\* if project not in project_data: project_data[project] = {}
EnsureProjectData(pd, p) == IF p \in DOMAIN pd THEN pd ELSE (p :> EmptyMap) @@ pd

\* project_data[project][structure] = st
SetStructure(pd, p, s, st) == [pd EXCEPT ![p] = (s :> st) @@ @]

----------------------------------------------------------------------------
(* Responses *)

NoName == << >>

\* The request handled and the response returned.  action is the form's
\* 'action' of a results POST and file the 'photo' part of an upload; outcome
\* is "render", "redirect", "json", "not_found" or "error" (an unhandled
\* exception); api_call tells that the inference call was made and completion
\* is what it returned.
\* The summary of a response that has none
NoResumo ==
    [total_validas |-> 0, total_invalidas |-> 0, total_nao_validadas |-> 0,
     total_avaliadas |-> 0, total_estruturas |-> 0, total_extras |-> 0]

Response(route, method, p, s, new, outcome, flash, target, api) ==
    [route |-> route, method |-> method, project |-> p, structure |-> s,
     new_structure |-> new, action |-> "", file |-> << >>,
     outcome |-> outcome, flash |-> flash, target |-> target, api_call |-> api,
     completion |-> [choices |-> FALSE, content |-> << >>],
     has_unvalidated_structures |-> FALSE, comments |-> "",
     latitude |-> NoArg, longitude |-> NoArg, resumo |-> NoResumo,
     lado_a |-> NoName, lado_b |-> NoName]

\* The clients whose requests may overlap, and a client with no request
Clients == {"a", "b"}

\* A request between its load_validation_data() and its
\* save_validation_data(); snapshot is the document it loaded
Request(route, p, s, action, comments, snapshot) ==
    [route |-> route, project |-> p, structure |-> s, action |-> action,
     comments |-> comments, snapshot |-> snapshot]

Idle == Request("", "", NoName, "", "", EmptyMap)

\* Before the first request
NoRequest == Response("", "", "", NoName, FALSE, "", << >>, "", FALSE)

NoFile == [exists |-> FALSE, doc |-> EmptyDict]

File(doc) == [exists |-> TRUE, doc |-> doc]

----------------------------------------------------------------------------
(* results(), GET (447-497) *)

\* What a results GET reads and writes
ResultsGetWrites(p, s, new) ==
    LET ok == /\ output_json.exists
              /\ (new \/ HasStructure(project_data, p, s))
        diff == IF new THEN NewDiff(output_json.doc)
                ELSE ExistingDiff(project_data[p][s].Gabarito, output_json.doc)
    IN  /\ results_json' = IF ok THEN File(diff) ELSE results_json
        /\ last' = Response("results", "GET", p, s, new,
                            IF ok THEN "render" ELSE "error", << >>, "", FALSE)
        /\ UNCHANGED <<project_data, validation_data, output_json>>

ResultsGet(p, s, new) ==
    /\ ResultsGetWrites(p, s, new)
    /\ UNCHANGED conc

----------------------------------------------------------------------------
(* allowed_file (utils.py 33-45); a file name is a sequence of characters *)

ALLOWED_EXTENSIONS ==
    {<<"p", "n", "g">>, <<"j", "p", "g">>, <<"j", "p", "e", "g">>, <<"g", "i", "f">>}

\* str.lower() on the characters the file names use
LowerChar(c) ==
    CASE c = "P" -> "p" [] c = "N" -> "n" [] c = "G" -> "g" [] OTHER -> c

Lower(f) == [i \in 1..Len(f) |-> LowerChar(f[i])]

HasDot(f) == \E i \in 1..Len(f) : f[i] = "."

\* filename.rsplit('.', 1)[1]: the text after the last dot
AfterLastDot(f) ==
    LET dot == CHOOSE i \in 1..Len(f) :
                   f[i] = "." /\ \A j \in (i + 1)..Len(f) : f[j] # "."
    IN  SubSeq(f, dot + 1, Len(f))

allowed_file(f) == HasDot(f) /\ Lower(AfterLastDot(f)) \in ALLOWED_EXTENSIONS

----------------------------------------------------------------------------
(* generate_new_output_json (utils.py 130-264).  The completion's content is *)
(* a sequence of characters; a JSON object text is one character that      *)
(* carries the object: a character is the pair <<c, doc>>.                  *)

Ch(c) == <<c, EmptyDict>>

Obj(doc) == <<"{}", doc>>

IsSpace(x) == x[1] = " "

RECURSIVE LStrip(_)
LStrip(s) == IF s # << >> /\ IsSpace(Head(s)) THEN LStrip(Tail(s)) ELSE s

RECURSIVE RStrip(_)
RStrip(s) ==
    IF s # << >> /\ IsSpace(s[Len(s)]) THEN RStrip(SubSeq(s, 1, Len(s) - 1)) ELSE s

\* str.strip()
Strip(s) == LStrip(RStrip(s))

\* "tick" is the backtick character
Fence == <<Ch("tick"), Ch("tick"), Ch("tick")>>

FenceJson == Fence \o <<Ch("j"), Ch("s"), Ch("o"), Ch("n")>>

StartsWith(s, pre) == Len(s) >= Len(pre) /\ SubSeq(s, 1, Len(pre)) = pre

EndsWith(s, suf) ==
    Len(s) >= Len(suf) /\ SubSeq(s, Len(s) - Len(suf) + 1, Len(s)) = suf

AllSpace(s, i, j) == \A k \in i..j : IsSpace(s[k])

\* re.search of line 239 (opening marker, spaces, group 1 from a brace to a
\* brace, spaces, closing marker; DOTALL): the places <<a, b>> of
\* group 1, at the leftmost opening marker and, from there, the longest match
FenceMatches(s) ==
    {m \in (1..Len(s)) \X (1..Len(s)) :
        /\ m[1] <= m[2]
        /\ s[m[1]][1] = "{}" /\ s[m[2]][1] = "{}"
        /\ \E o \in 1..Len(s) :
               /\ o + Len(FenceJson) <= m[1]
               /\ SubSeq(s, o, o + Len(FenceJson) - 1) = FenceJson
               /\ AllSpace(s, o + Len(FenceJson), m[1] - 1)
        /\ \E e \in (m[2] + 1)..Len(s) :
               /\ AllSpace(s, m[2] + 1, e - 1)
               /\ e + Len(Fence) - 1 <= Len(s)
               /\ SubSeq(s, e, e + Len(Fence) - 1) = Fence}

FenceGroup(s) ==
    LET ms == FenceMatches(s)
        a == CHOOSE x \in {m[1] : m \in ms} : \A m \in ms : x <= m[1]
        b == CHOOSE y \in {m[2] : m \in {n \in ms : n[1] = a}} :
                 \A m \in {n \in ms : n[1] = a} : y >= m[2]
    IN  SubSeq(s, a, b)

\* lines 246-253: the markers stripped before decoding
Unfenced(json_str) ==
    LET s0 == Strip(json_str)
        s1 == IF StartsWith(s0, FenceJson) THEN SubSeq(s0, 7, Len(s0)) ELSE s0
        s2 == IF StartsWith(s1, Fence) THEN SubSeq(s1, 4, Len(s1)) ELSE s1
        s3 == IF EndsWith(s2, Fence) THEN SubSeq(s2, 1, Len(s2) - 3) ELSE s2
    IN  Strip(s3)

\* Mutant: the text after the first JSON object is ignored
Decodes_IgnoresRest(text) == text # << >> /\ text[1][1] = "{}"

\* json.loads(text) succeeds: the text is one JSON object
Decodes(text) == Len(text) = 1 /\ text[1][1] = "{}"

ApiError == <<<<<<"mensagem">>, "Erro na resposta da API. Por favor, tente novamente.">>>>

ProcessError ==
    <<<<<<"mensagem">>, "Erro ao processar a resposta da API. Por favor, tente novamente.">>>>

\* The object generate_new_output_json writes to instance/output.json for a
\* completion [choices, content]
GeneratedOutput(api) ==
    IF ~api.choices THEN ApiError
    ELSE LET output_data == Strip(api.content)
             json_str == IF FenceMatches(output_data) # {}
                         THEN FenceGroup(output_data) ELSE output_data
             text == Unfenced(json_str)
         IN  IF output_data = << >> THEN ApiError
             ELSE IF Decodes(text) THEN text[1][2]
             ELSE ProcessError

\* Mutant: output.json dumped with its non-ASCII letters escaped, so that a
\* phrase that has one is never found in the text
ContainsPhrase_Escaped(doc, phrase) ==
    /\ phrase # "Imagem não relacionada."
    /\ \E i \in 1..Len(doc) : doc[i][1] = <<"mensagem">> /\ doc[i][2] = phrase

\* "phrase in output_data" on the text of output.json (routes.py 281, 284)
ContainsPhrase(doc, phrase) ==
    \E i \in 1..Len(doc) : doc[i][1] = <<"mensagem">> /\ doc[i][2] = phrase

UNRELATED == "Imagem não relacionada."

LOW_QUALITY == "Imagem sem qualidade."

----------------------------------------------------------------------------
(* home (49-69), project_summary (71-104) *)

Home(method, action) ==
    /\ last' = IF method = "POST" /\ action \in {"select_structure", "open_pdf"}
               THEN Response("home", method, "", NoName, FALSE, "redirect", << >>, action, FALSE)
               ELSE Response("home", method, "", NoName, FALSE, "render", << >>, "", FALSE)
    /\ UNCHANGED <<project_data, validation_data, output_json, results_json, conc>>

\* Mutant: the test of line 80 is dropped and line 82 raises KeyError
ProjectSummary_Unguarded(p) ==
    /\ last' = Response("project_summary", "GET", p, NoName, FALSE,
                        IF p \in DOMAIN project_data THEN "render" ELSE "error",
                        << >>, "", FALSE)
    /\ UNCHANGED <<project_data, validation_data, output_json, results_json, conc>>

\* lines 81-99: the counts are taken over the records of the project in the
\* validation store, the number of structures from the project store
Resumo(vd, pd, p) ==
    LET estruturas_validadas == RecordsOf(vd, p)
        Total(status) ==
            Cardinality({s \in DOMAIN estruturas_validadas :
                            estruturas_validadas[s].status = status})
        structures == Cardinality(DOMAIN pd[p])
    IN  [total_validas |-> Total("valid"),
         total_invalidas |-> Total("invalid"),
         total_nao_validadas |->
             structures - Total("valid") - Total("invalid") - Total("extra"),
         total_avaliadas |-> Total("valid") + Total("invalid"),
         total_estruturas |-> structures - Total("extra"),
         total_extras |-> Total("extra")]

ProjectSummary(p) ==
    /\ last' = IF p \in DOMAIN project_data
               THEN [Response("project_summary", "GET", p, NoName, FALSE, "render",
                              << >>, "", FALSE)
                        EXCEPT !.resumo = Resumo(validation_data, project_data, p)]
               ELSE Response("project_summary", "GET", p, NoName, FALSE, "redirect",
                             <<"Projeto não encontrado.">>, "home", FALSE)
    /\ UNCHANGED <<project_data, validation_data, output_json, results_json, conc>>

----------------------------------------------------------------------------
(* select_structure (106-174) *)

\* line 121: the structures of the project whose status is not 'extra'
NonExtra(vd, pd, p) ==
    {s \in DOMAIN pd[p] : ~(HasRecord(vd, p, s) /\ vd.validations[p][s].status = "extra")}

\* line 121 looks validation_data['validations'][project] up once per
\* structure, before lines 123-126 create the missing keys: KeyError
SelectLookupFails(vd, pd, p) ==
    /\ DOMAIN pd[p] # {}
    /\ ~(HasValidations(vd) /\ p \in DOMAIN vd.validations)

\* Mutant: line 131 with the status misspelt
AddPending_Misspelt(recs, structures) ==
    [s \in structures \ DOMAIN recs |-> Record("to_be_valided", "")] @@ recs

\* lines 128-133: a pending record for every listed structure that has none
AddPending(recs, structures) ==
    [s \in structures \ DOMAIN recs |-> Record(PENDING, "")] @@ recs

\* Mutant: line 129 without its test, every listed structure is reset
SelectStructureUpdate_ResetsAll(vd, pd, p) ==
    LET vd1 == EnsureProject(vd, p)
    IN  [validations |->
            [vd1.validations EXCEPT
                ![p] = [s \in NonExtra(vd, pd, p) |-> Record(PENDING, "")] @@ @]]

\* validation_data as saved at line 134
SelectStructureUpdate(vd, pd, p) ==
    LET vd1 == EnsureProject(vd, p)
    IN  Stored([validations |->
                   [vd1.validations EXCEPT ![p] = AddPending(@, NonExtra(vd, pd, p))]])

\* s[::-1]
Reverse(s) == [i \in 1..Len(s) |-> s[Len(s) + 1 - i]]

\* The orders the names of a mapping can be listed in
Orderings(structs) ==
    {seq \in [1..Cardinality(DOMAIN structs) -> DOMAIN structs] :
        \A i, j \in DOMAIN seq : i # j => seq[i] # seq[j]}

\* order_structures_by_latlong(structs): the names sorted by latitude, then
\* longitude
order_structures_by_latlong(structs) ==
    CHOOSE seq \in Orderings(structs) :
        \A i, j \in DOMAIN seq :
            i < j => \/ structs[seq[i]].latitude < structs[seq[j]].latitude
                     \/ /\ structs[seq[i]].latitude = structs[seq[j]].latitude
                        /\ structs[seq[i]].longitude <= structs[seq[j]].longitude

\* line 137: the listed structures of the project, ordered
OrderedStructures(vd, pd, p) ==
    order_structures_by_latlong([s \in NonExtra(vd, pd, p) |-> pd[p][s]])

\* Mutant: the reversal of line 147 is dropped
TraversalOrder_SideIgnored(ordered, side) == ordered

\* lines 145-147: the order of the visit from the side chosen
TraversalOrder(ordered, side) ==
    IF side = "B" THEN Reverse(ordered) ELSE ordered

\* The side of a start_validation form
SideOf(form) == IF form = "start_B" THEN "B" ELSE "A"

\* lines 136-174, after the save; ordered is ordered_structures of line 137
SelectStructureResponse(p, method, form, ordered) ==
    IF method = "POST" /\ form \in {"start_A", "start_B"}
    THEN IF ordered = << >>
         THEN [Response("select_structure", method, p, NoName, FALSE, "error", << >>, "",
                        FALSE) EXCEPT !.action = form]
         ELSE [Response("select_structure", method, p,
                        TraversalOrder(ordered, SideOf(form))[1], FALSE, "redirect", << >>,
                        "upload_photo", FALSE) EXCEPT !.action = form]
    ELSE IF method = "POST" /\ form = "structure"
    THEN Response("select_structure", method, p, NoName, FALSE, "redirect", << >>,
                  "upload_photo", FALSE)
    ELSE IF Len(ordered) < 3
    THEN Response("select_structure", method, p, NoName, FALSE, "error", << >>, "", FALSE)
    ELSE [Response("select_structure", method, p, NoName, FALSE, "render", << >>, "", FALSE)
             EXCEPT !.lado_a = ordered[1], !.lado_b = ordered[3]]

SelectStructure(p, method, form) ==
    IF p \notin DOMAIN project_data \/ SelectLookupFails(validation_data, project_data, p)
    THEN /\ last' = Response("select_structure", method, p, NoName, FALSE, "error", << >>, "", FALSE)
         /\ UNCHANGED <<project_data, validation_data, output_json, results_json, conc>>
    ELSE /\ validation_data' = SelectStructureUpdate(validation_data, project_data, p)
         /\ last' = SelectStructureResponse(p, method, form,
                        OrderedStructures(validation_data, project_data, p))
         /\ UNCHANGED <<project_data, output_json, results_json, conc>>

----------------------------------------------------------------------------
(* validate_project (176-197), open_pdf (200-212) *)

\* Mutant: the pending records are marked valid and the document is saved
ValidateProject_MarksAll(p) ==
    LET vd1 == EnsureProject(validation_data, p)
    IN  /\ validation_data' =
               [validations |->
                   [vd1.validations EXCEPT
                       ![p] = [s \in DOMAIN @ |->
                                  IF @[s].status = PENDING
                                  THEN Record("valid", @[s].comments) ELSE @[s]]]]
        /\ last' = Response("validate_project", "POST", p, NoName, FALSE, "redirect",
                            <<"validado com sucesso!">>, "home", FALSE)
        /\ UNCHANGED <<project_data, output_json, results_json, conc>>

ValidateProject(p) ==
    LET pending == {s \in DOMAIN RecordsOf(validation_data, p) :
                        RecordsOf(validation_data, p)[s].status = PENDING}
    IN  /\ last' = IF pending = {}
                   THEN Response("validate_project", "POST", p, NoName, FALSE, "redirect",
                                 <<"validado com sucesso!">>, "home", FALSE)
                   ELSE Response("validate_project", "POST", p, NoName, FALSE, "redirect",
                                 <<"Ainda existem estruturas não validadas. Confirme a validação manualmente.">>,
                                 "project_summary", FALSE)
        /\ UNCHANGED <<project_data, validation_data, output_json, results_json, conc>>

OpenPdf(isfile) ==
    /\ last' = Response("open_pdf", "GET", "", NoName, FALSE,
                        IF isfile THEN "render" ELSE "not_found", << >>, "", FALSE)
    /\ UNCHANGED <<project_data, validation_data, output_json, results_json, conc>>

----------------------------------------------------------------------------
(* upload_photo (214-294) *)

\* lines 240-248: float() of a truthy latitude or longitude raises ValueError
RoundingFails(lat, lon) ==
    \/ Truthy(lat) /\ ~IsFloatText(TextOf(lat))
    \/ Truthy(lon) /\ ~IsFloatText(TextOf(lon))

\* Mutant: output.json is written only when it does not exist yet
UploadPhoto_KeepsFirstOutput(method, p, s, new, lat, lon, file, api) ==
    LET R(outcome, flash, target, called) ==
            [Response("upload_photo", method, p, s, new, outcome, flash, target, called)
                EXCEPT !.file = file, !.completion = IF called THEN api ELSE @]
        written == IF output_json.exists THEN output_json.doc ELSE GeneratedOutput(api)
    IN  IF RoundingFails(lat, lon)
        THEN /\ last' = R("error", << >>, "", FALSE)
             /\ UNCHANGED <<project_data, validation_data, output_json, results_json, conc>>
        ELSE IF method = "GET"
        THEN /\ last' = R("render", << >>, "", FALSE)
             /\ UNCHANGED <<project_data, validation_data, output_json, results_json, conc>>
        ELSE IF ~IsGiven(file) \/ TextOf(file) = << >>
        THEN /\ last' = R("redirect", <<"Nenhuma foto selecionada.">>, "upload_photo", FALSE)
             /\ UNCHANGED <<project_data, validation_data, output_json, results_json, conc>>
        ELSE IF ~allowed_file(TextOf(file))
        THEN /\ last' = R("redirect",
                          <<"Formato de arquivo inválido. Apenas imagens são permitidas.">>,
                          "upload_photo", FALSE)
             /\ UNCHANGED <<project_data, validation_data, output_json, results_json, conc>>
        ELSE /\ output_json' = File(written)
             /\ last' = IF ContainsPhrase(written, UNRELATED)
                        THEN R("redirect", <<"A imagem enviada não é válida.">>, "upload_photo", TRUE)
                        ELSE IF ContainsPhrase(written, LOW_QUALITY)
                        THEN R("redirect", <<"A imagem enviada não tem qualidade.">>,
                               "upload_photo", TRUE)
                        ELSE R("redirect", << >>, "results", TRUE)
             /\ UNCHANGED <<project_data, validation_data, results_json, conc>>

\* file is NoArg when the request has no 'photo' part, else Arg(file name);
\* api is the completion the inference call returns
UploadPhotoWrites(method, p, s, new, lat, lon, file, api) ==
    LET R(outcome, flash, target, called) ==
            [Response("upload_photo", method, p, s, new, outcome, flash, target, called)
                EXCEPT !.file = file, !.completion = IF called THEN api ELSE @]
        written == GeneratedOutput(api)
    IN  IF RoundingFails(lat, lon)
        THEN /\ last' = R("error", << >>, "", FALSE)
             /\ UNCHANGED <<project_data, validation_data, output_json, results_json>>
        ELSE IF method = "GET"
        THEN /\ last' = R("render", << >>, "", FALSE)
             /\ UNCHANGED <<project_data, validation_data, output_json, results_json>>
        ELSE IF ~IsGiven(file) \/ TextOf(file) = << >>
        THEN /\ last' = R("redirect", <<"Nenhuma foto selecionada.">>, "upload_photo", FALSE)
             /\ UNCHANGED <<project_data, validation_data, output_json, results_json>>
        ELSE IF ~allowed_file(TextOf(file))
        THEN /\ last' = R("redirect",
                          <<"Formato de arquivo inválido. Apenas imagens são permitidas.">>,
                          "upload_photo", FALSE)
             /\ UNCHANGED <<project_data, validation_data, output_json, results_json>>
        ELSE /\ output_json' = File(written)
             /\ last' = IF ContainsPhrase(written, UNRELATED)
                        THEN R("redirect", <<"A imagem enviada não é válida.">>, "upload_photo", TRUE)
                        ELSE IF ContainsPhrase(written, LOW_QUALITY)
                        THEN R("redirect", <<"A imagem enviada não tem qualidade.">>,
                               "upload_photo", TRUE)
                        ELSE R("redirect", << >>, "results", TRUE)
             /\ UNCHANGED <<project_data, validation_data, results_json>>

UploadPhoto(method, p, s, new, lat, lon, file, api) ==
    /\ UploadPhotoWrites(method, p, s, new, lat, lon, file, api)
    /\ UNCHANGED conc

----------------------------------------------------------------------------
(* get_structure_coordinates (296-312), check_validation_status (500-513) *)

GetStructureCoordinates(p, s) ==
    /\ last' = Response("get_structure_coordinates", "GET", p, s, FALSE,
                        IF HasStructure(project_data, p, s) THEN "json" ELSE "not_found",
                        << >>, "", FALSE)
    /\ UNCHANGED <<project_data, validation_data, output_json, results_json, conc>>

\* lines 508-511: some record of the project in the validation store has
\* the pending status
has_unvalidated_structures(vd, p) ==
    LET estruturas_validadas ==
            IF HasValidations(vd) /\ p \in DOMAIN vd.validations
            THEN vd.validations[p] ELSE EmptyMap
    IN  \E s \in DOMAIN estruturas_validadas :
            estruturas_validadas[s].status = "to_be_validated"

CheckValidationStatus(p) ==
    /\ last' = [Response("check_validation_status", "POST", p, NoName, FALSE, "json",
                         << >>, "", FALSE)
                   EXCEPT !.has_unvalidated_structures =
                              has_unvalidated_structures(validation_data, p)]
    /\ UNCHANGED <<project_data, validation_data, output_json, results_json, conc>>

----------------------------------------------------------------------------
(* add_structure_to_project (314-366) *)

\* validation_data as saved at line 362
AddStructureUpdate(vd, p, s) ==
    Stored(SetRecord(EnsureProject(vd, p), p, s, Record("extra", "")))

\* Mutant: the test of line 344 is dropped
AddStructureToProject_Overwrites(p, s, lat, lon) ==
    LET R(flash, target) ==
            [Response("add_structure_to_project", "POST", p, s, FALSE, "redirect",
                      flash, target, FALSE)
                EXCEPT !.latitude = lat, !.longitude = lon]
    IN  IF ~Truthy(lat) \/ ~Truthy(lon)
        THEN /\ last' = R(<<"Latitude e Longitude são obrigatórias.">>, "select_structure")
             /\ UNCHANGED <<project_data, validation_data, output_json, results_json, conc>>
        ELSE IF ~IsFloatText(TextOf(lat)) \/ ~IsFloatText(TextOf(lon))
        THEN /\ last' = R(<<"Latitude e Longitude devem ser números válidos.">>,
                          "select_structure")
             /\ UNCHANGED <<project_data, validation_data, output_json, results_json, conc>>
        ELSE IF FALSE
        THEN /\ last' = R(<< >>, "project_summary")
             /\ UNCHANGED <<project_data, validation_data, output_json, results_json, conc>>
        ELSE /\ project_data' =
                    SetStructure(EnsureProjectData(project_data, p), p, s,
                        Structure(FloatValue(TextOf(lat)), FloatValue(TextOf(lon)), EmptyMap))
             /\ validation_data' = AddStructureUpdate(validation_data, p, s)
             /\ last' = R(<<"adicionada com sucesso">>, "project_summary")
             /\ UNCHANGED <<output_json, results_json, conc>>

AddStructureToProject(p, s, lat, lon) ==
    LET R(flash, target) ==
            [Response("add_structure_to_project", "POST", p, s, FALSE, "redirect",
                      flash, target, FALSE)
                EXCEPT !.latitude = lat, !.longitude = lon]
    IN  IF ~Truthy(lat) \/ ~Truthy(lon)
        THEN /\ last' = R(<<"Latitude e Longitude são obrigatórias.">>, "select_structure")
             /\ UNCHANGED <<project_data, validation_data, output_json, results_json, conc>>
        ELSE IF ~IsFloatText(TextOf(lat)) \/ ~IsFloatText(TextOf(lon))
        THEN /\ last' = R(<<"Latitude e Longitude devem ser números válidos.">>,
                          "select_structure")
             /\ UNCHANGED <<project_data, validation_data, output_json, results_json, conc>>
        ELSE IF HasStructure(project_data, p, s)
        THEN /\ last' = R(<< >>, "project_summary")
             /\ UNCHANGED <<project_data, validation_data, output_json, results_json, conc>>
        ELSE /\ project_data' =
                    SetStructure(EnsureProjectData(project_data, p), p, s,
                        Structure(FloatValue(TextOf(lat)), FloatValue(TextOf(lon)), EmptyMap))
             /\ validation_data' = AddStructureUpdate(validation_data, p, s)
             /\ last' = R(<<"adicionada com sucesso">>, "project_summary")
             /\ UNCHANGED <<output_json, results_json, conc>>

----------------------------------------------------------------------------
(* results, POST (393-445) *)

\* Mutant: line 400 runs when the project is missing, not the key
ResultsUpdate_ResetsValidations(vd, p, s, status, comments) ==
    IF HasValidations(vd) /\ p \in DOMAIN vd.validations
    THEN SetRecord(vd, p, s, Record(status, comments))
    ELSE [validations |-> (p :> (s :> Record(status, comments)))]

\* validation_data as saved at line 409 (status 'valid') or 434 ('invalid')
ResultsUpdate(vd, p, s, status, comments) ==
    Stored(SetRecord(EnsureProject(vd, p), p, s, Record(status, comments)))

\* The response of a results POST (404-445); hasNext: get_next_structure(project,
\* structure, direction) returned a name
ResultsResponse(p, s, new, lat, lon, action, hasNext) ==
    LET R(outcome, flash, target) ==
            [Response("results", "POST", p, s, new, outcome, flash, target, FALSE)
                EXCEPT !.action = action]
        Onward(flash) ==
            IF hasNext THEN R("redirect", flash, "upload_photo")
            ELSE R("redirect", flash \o <<"Todas as estruturas foram avaliadas.">>,
                   "project_summary")
    IN  IF action = "validate_structure"
        THEN IF ~new THEN Onward(<<"Estrutura validada com sucesso!">>)
             ELSE IF FloatOk(lat) /\ FloatOk(lon)
             THEN Onward(<<"Nova estrutura validada e adicionada ao projeto com sucesso!">>)
             ELSE R("error", << >>, "")
        ELSE IF action = "invalidate_structure"
        THEN Onward(<<"Estrutura invalidada. Retornando à seleção de estruturas.">>)
        ELSE R("redirect", <<"Por favor, envie outra foto.">>, "upload_photo")

\* Mutant: the status of line 406 is saved for both verdicts
StatusOf_AlwaysValid(action) == "valid"

\* The status a verdict saves (406, 431)
StatusOf(action) == IF action = "validate_structure" THEN "valid" ELSE "invalid"

\* What a results POST writes: the validation record is saved (409) before
\* float(latitude) can raise (414)
ResultsWrites(p, s, new, lat, lon, action, comments, hasNext) ==
    /\ validation_data' =
           IF action = "remove_photo" THEN validation_data
           ELSE ResultsUpdate(validation_data, p, s, StatusOf(action), comments)
    /\ project_data' =
           IF action = "validate_structure" /\ new /\ FloatOk(lat) /\ FloatOk(lon)
           THEN SetStructure(EnsureProjectData(project_data, p), p, s,
                    Structure(FloatValue(TextOf(lat)), FloatValue(TextOf(lon)), EmptyMap))
           ELSE project_data
    /\ last' = [ResultsResponse(p, s, new, lat, lon, action, hasNext)
                   EXCEPT !.comments = comments]

ResultsPost(p, s, new, lat, lon, action, comments, hasNext) ==
    /\ action \in {"validate_structure", "invalidate_structure", "remove_photo"}
    /\ ResultsWrites(p, s, new, lat, lon, action, comments, hasNext)
    /\ UNCHANGED <<output_json, results_json, conc>>

----------------------------------------------------------------------------
(* add_new_structure (515-543), add_and_upload (545-567) *)

\* lines 536-538 and 558-560; the lookup of 'validations' raises KeyError
\* when the document has no such key
NewStructureName(vd, p) ==
    NovaName(Cardinality({k \in DOMAIN RecordsOf(vd, p) : StartsWithNova(k)}) + 1)

\* The response of add_new_structure: the redirect to upload_photo carries
\* the generated name
AddNewStructureResponse(method, p, name, lat, lon) ==
    LET R(s, outcome, flash, target) ==
            Response("add_new_structure", method, p, s, FALSE, outcome, flash, target, FALSE)
    IN  IF method = "GET" THEN R(NoName, "render", << >>, "")
        ELSE IF ~Truthy(name) \/ ~Truthy(lat) \/ ~Truthy(lon)
        THEN R(NoName, "redirect", <<"Todos os campos são obrigatórios.">>,
               "add_new_structure")
        ELSE IF ~HasValidations(validation_data)
        THEN R(NoName, "error", << >>, "")
        ELSE R(NewStructureName(validation_data, p), "redirect",
               <<"iniciando validação!">>, "upload_photo")

AddNewStructure(method, p, name, lat, lon) ==
    /\ last' = AddNewStructureResponse(method, p, name, lat, lon)
    /\ UNCHANGED <<project_data, validation_data, output_json, results_json, conc>>

\* The response of add_and_upload
AddAndUploadResponse(p) ==
    IF ~HasValidations(validation_data)
    THEN Response("add_and_upload", "POST", p, NoName, FALSE, "error", << >>, "", FALSE)
    ELSE Response("add_and_upload", "POST", p, NewStructureName(validation_data, p),
                  FALSE, "redirect", << >>, "upload_photo", FALSE)

AddAndUpload(p) ==
    /\ last' = AddAndUploadResponse(p)
    /\ UNCHANGED <<project_data, validation_data, output_json, results_json, conc>>

----------------------------------------------------------------------------
(* Inference results drawn for the diff *)

Cruzeta == <<"Cruzeta">>
Religador == <<"Religador">>
Luminaria == <<"Luminária">>

Items == {Cruzeta, Religador, Luminaria}

GabaritoItems == {Cruzeta, Religador}

CarKeys == {CarKey(Cruzeta), CarKey(Luminaria)}

CarMaps == {EmptyMap, [Material |-> "Concreto"]}

KeyOrder == <<Cruzeta, Religador, Luminaria,
              CarKey(Cruzeta), CarKey(Luminaria), QuantKey>>

PartialFns(S, V) == UNION {[D -> V] : D \in SUBSET S}

\* The JSON object with the given members, in KeyOrder or in its reverse
MkDoc(items, cars, hasQ, quant, rev) ==
    LET Present(k) == \/ k \in DOMAIN items
                      \/ k \in DOMAIN cars
                      \/ (k = QuantKey /\ hasQ)
        Value(k) == IF k \in DOMAIN items THEN items[k]
                    ELSE IF k \in DOMAIN cars THEN cars[k]
                    ELSE quant
        sel == SelectSeq(IF rev THEN Reverse(KeyOrder) ELSE KeyOrder, Present)
    IN  [i \in 1..Len(sel) |-> <<sel[i], Value(sel[i])>>]

Gabaritos == PartialFns(GabaritoItems, {EmptyMap})

InitDiff ==
    /\ \E g \in Gabaritos :
           project_data = ("P1" :> (E1 :> Structure(-37, 385, g)))
    /\ validation_data = [validations |-> EmptyMap]
    /\ \E items \in PartialFns(Items, BOOLEAN),
          cars \in PartialFns(CarKeys, CarMaps),
          hasQ \in BOOLEAN,
          quant \in PartialFns(Items, 1..MaxCount),
          rev \in BOOLEAN :
           /\ (~hasQ => quant = EmptyMap)
           /\ output_json = File(MkDoc(items, cars, hasQ, quant, rev))
    /\ results_json = NoFile
    /\ last = NoRequest
    /\ inflight = [c \in Clients |-> Idle]
    /\ committed = EmptyMap
    /\ stale_write = FALSE

NextDiff ==
    \E p \in Projects, new \in BOOLEAN : ResultsGet(p, E1, new)

SpecDiff == InitDiff /\ [][NextDiff]_vars

----------------------------------------------------------------------------
(* The workflow: requests handled one at a time *)

Nova1 == NovaName(1)

\* The inference of a pole with a crossarm and a lamp
DocPole == <<<<Cruzeta, TRUE>>, <<Luminaria, TRUE>>>>

Completion(content) == [choices |-> TRUE, content |-> content]

NoChoices == [choices |-> FALSE, content |-> << >>]

PhotoPng == <<"a", ".", "P", "N", "G">>

PhotoTxt == <<"a", ".", "t", "x", "t">>

Init ==
    /\ project_data =
           ("P1" :> (E1 :> Structure(-37, 385, [k \in {Cruzeta, Religador} |-> EmptyMap])
                  @@ E2 :> Structure(-37, 386, [k \in {Cruzeta} |-> EmptyMap])
                  @@ E3 :> Structure(-38, 386, EmptyMap)))
    /\ validation_data \in {EmptyMap,
                            [validations |-> EmptyMap],
                            [validations |-> ("P1" :> EmptyMap)]}
    /\ output_json = NoFile
    /\ results_json = NoFile
    /\ last = NoRequest
    /\ inflight = [c \in Clients |-> Idle]
    /\ committed = EmptyMap
    /\ stale_write = FALSE

\* The (project, structure) pairs the requests name: a structure of the
\* project list, and a new structure of a project the store does not list
Targets == {<<"P1", E1>>, <<"P2", Nova1>>}

Coordinates == {<<Arg("-3.7"), Arg("38.5")>>, <<Arg("abc"), Arg("38.5")>>,
                <<NoArg, NoArg>>}

\* The forms a results POST submits: the coordinates matter to a new
\* structure alone, the comment to the two verdicts alone
ResultsForms ==
    {f \in [new : BOOLEAN, c : Coordinates,
            action : {"validate_structure", "invalidate_structure", "remove_photo"},
            comments : Comments] :
        /\ (~f.new => f.c = <<NoArg, NoArg>>)
        /\ (f.action = "remove_photo" => f.comments = "")}

Next ==
    \/ Home("GET", "")
    \/ \E p \in Projects : ProjectSummary(p)
    \/ \E p \in Projects,
          m \in {<<"GET", "">>, <<"POST", "start_A">>, <<"POST", "start_B">>} :
           SelectStructure(p, m[1], m[2])
    \/ ValidateProject("P1")
    \/ OpenPdf(TRUE)
    \/ \E file \in {Arg(PhotoPng), Arg(PhotoTxt)} :
           UploadPhoto("POST", "P1", E1, FALSE, NoArg, NoArg, file,
                       Completion(<<Obj(DocPole)>>))
    \/ \E t \in Targets : GetStructureCoordinates(t[1], t[2])
    \/ \E t \in Targets, c \in Coordinates : AddStructureToProject(t[1], t[2], c[1], c[2])
    \/ \E t \in Targets, f \in ResultsForms, hasNext \in BOOLEAN :
           ResultsPost(t[1], t[2], f.new, f.c[1], f.c[2], f.action, f.comments, hasNext)
    \/ ResultsGet("P1", E1, FALSE)
    \/ CheckValidationStatus("P1")
    \/ \E p \in Projects : AddNewStructure("POST", p, Arg("nova"), Arg("-3.7"), Arg("38.5"))
    \/ \E p \in Projects : AddAndUpload(p)

Spec == Init /\ [][Next]_vars

----------------------------------------------------------------------------
(* Uploads: every kind of upload_photo request, with the page that follows *)

\* File names: without a dot, ending in a dot, a text file, an image name
\* with a text extension after it, an image in capitals, an image name with
\* two dots, and the empty name of a form submitted without a file
NameNoDot == <<"a">>
NameDotEnd == <<"a", ".">>
NamePngTxt == <<"a", ".", "p", "n", "g", ".", "t", "x", "t">>
NameTxtGif == <<"a", ".", "t", "x", "t", ".", "g", "i", "f">>
NameEmpty == << >>

UploadNames ==
    {NameEmpty, NameNoDot, NameDotEnd, PhotoTxt, NamePngTxt, PhotoPng, NameTxtGif}

\* The inference of a photo that shows no pole
DocUnrelated == <<<<<<"mensagem">>, UNRELATED>>>>

\* The inference of a photo that is out of focus
DocLowQuality == <<<<<<"mensagem">>, LOW_QUALITY>>>>

\* The completions the inference call returns
Completions ==
    {NoChoices,
     Completion(<< >>),
     Completion(<<Ch(" "), Obj(DocPole)>>),
     Completion(FenceJson \o <<Ch(" "), Obj(DocPole), Ch(" ")>> \o Fence),
     Completion(<<Ch("x")>>),
     Completion(<<Ch(" ")>>),
     Completion(<<Obj(DocPole), Ch("x")>>),
     Completion(<<Obj(DocUnrelated)>>),
     Completion(<<Obj(DocLowQuality)>>)}

\* (project, structure, new_structure) of the query string
UploadTargets == {<<"P1", E1, FALSE>>, <<"P1", Nova1, TRUE>>}

\* latitude and longitude of the query string: absent, empty, not a number,
\* a number
UploadCoordinates ==
    {<<NoArg, NoArg>>, <<Arg(""), Arg("38.5")>>, <<Arg("abc"), Arg("38.5")>>,
     <<Arg("-3.7"), Arg("38.5")>>}

InitUpload ==
    /\ Init
    /\ validation_data = [validations |-> ("P1" :> EmptyMap)]

NextUpload ==
    \/ \E method \in {"GET", "POST"}, t \in UploadTargets, c \in UploadCoordinates,
          file \in {NoArg} \cup {Arg(f) : f \in UploadNames},
          api \in Completions :
           UploadPhoto(method, t[1], t[2], t[3], c[1], c[2], file, api)
    \/ \E new \in BOOLEAN : ResultsGet("P1", E1, new)

SpecUpload == InitUpload /\ [][NextUpload]_vars

----------------------------------------------------------------------------
(* Overlapping requests.  A handler that writes the validation document is  *)
(* two steps, its load_validation_data() and its save_validation_data();    *)
(* nothing locks the file between them (utils.py 67-85), so the steps of    *)
(* two clients interleave freely.                                           *)

\* results POST, lines 394-397: the form is read and the document loaded
ResultsLoad(c, p, s, action, comments) ==
    /\ inflight[c] = Idle
    /\ action \in {"validate_structure", "invalidate_structure"}
    /\ inflight' = [inflight EXCEPT
                       ![c] = Request("results", p, s, action, comments, validation_data)]
    /\ UNCHANGED <<project_data, validation_data, output_json, results_json, last,
                   committed, stale_write>>

\* results POST, lines 399-441: the verdict is set in the loaded document and
\* the document saved
ResultsSave(c, hasNext) ==
    LET r == inflight[c]
    IN  /\ r.route = "results"
        /\ validation_data' =
               ResultsUpdate(r.snapshot, r.project, r.structure, StatusOf(r.action), r.comments)
        /\ committed' = (<<r.project, r.structure>> :> Record(StatusOf(r.action), r.comments))
                            @@ committed
        /\ stale_write' = (stale_write \/ r.snapshot # validation_data)
        /\ last' = ResultsResponse(r.project, r.structure, FALSE, NoArg, NoArg,
                                   r.action, hasNext)
        /\ inflight' = [inflight EXCEPT ![c] = Idle]
        /\ UNCHANGED <<project_data, output_json, results_json>>

\* select_structure, lines 115-117
SelectLoad(c, p) ==
    /\ inflight[c] = Idle
    /\ p \in DOMAIN project_data
    /\ inflight' = [inflight EXCEPT
                       ![c] = Request("select_structure", p, NoName, "", "", validation_data)]
    /\ UNCHANGED <<project_data, validation_data, output_json, results_json, last,
                   committed, stale_write>>

\* select_structure, lines 118-174
SelectSave(c) ==
    LET r == inflight[c]
    IN  /\ r.route = "select_structure"
        /\ IF SelectLookupFails(r.snapshot, project_data, r.project)
           THEN /\ last' = Response("select_structure", "GET", r.project, NoName, FALSE,
                                    "error", << >>, "", FALSE)
                /\ UNCHANGED <<validation_data, stale_write>>
           ELSE /\ validation_data' = SelectStructureUpdate(r.snapshot, project_data, r.project)
                /\ stale_write' = (stale_write \/ r.snapshot # validation_data)
                /\ last' = SelectStructureResponse(r.project, "GET", "",
                               OrderedStructures(r.snapshot, project_data, r.project))
        /\ inflight' = [inflight EXCEPT ![c] = Idle]
        /\ UNCHANGED <<project_data, output_json, results_json, committed>>

InitConc ==
    /\ Init
    /\ HasValidations(validation_data)

NextConc ==
    \/ \E c \in Clients, s \in {E1, E2},
          action \in {"validate_structure", "invalidate_structure"} :
           ResultsLoad(c, "P1", s, action, "obs")
    \/ \E c \in Clients, hasNext \in BOOLEAN : ResultsSave(c, hasNext)
    \/ \E c \in Clients : SelectLoad(c, "P1")
    \/ \E c \in Clients : SelectSave(c)

SpecConc == InitConc /\ [][NextConc]_vars

----------------------------------------------------------------------------
(* Parsing: uploads of an image over the contents a completion can have *)

Space == <<Ch(" ")>>

\* What stands between the markers: a JSON object, the sentinel object, text
\* that is not JSON
Bodies == {<<Obj(DocPole)>>, <<Obj(DocUnrelated)>>, <<Ch("x")>>}

\* An optional opening marker, a body and an optional closing marker, with or
\* without white space around them
ParseContents ==
    {lead \o open \o gap1 \o body \o gap2 \o close :
        lead \in {<< >>, Space}, open \in {<< >>, Fence, FenceJson},
        gap1 \in {<< >>, Space}, body \in Bodies,
        gap2 \in {<< >>, Space}, close \in {<< >>, Fence}}

NextParse ==
    \E content \in ParseContents :
        UploadPhoto("POST", "P1", E1, FALSE, NoArg, NoArg, Arg(PhotoPng),
                    Completion(content))

SpecParse == InitUpload /\ [][NextParse]_vars

----------------------------------------------------------------------------
(* Lookups: the routes that read the project store, asked for projects and  *)
(* structures it has and has not                                            *)

LookupTargets == {<<"P1", E1>>, <<"P1", Nova1>>, <<"P2", E1>>}

NextLookup ==
    \/ \E p \in Projects : ProjectSummary(p)
    \/ \E p \in Projects,
          m \in {<<"GET", "">>, <<"POST", "start_A">>, <<"POST", "start_B">>} :
           SelectStructure(p, m[1], m[2])
    \/ \E t \in LookupTargets : GetStructureCoordinates(t[1], t[2])
    \/ \E t \in LookupTargets, new \in BOOLEAN : ResultsGet(t[1], t[2], new)
    \/ \E api \in {NoChoices, Completion(<<Obj(DocPole)>>)} :
           UploadPhoto("POST", "P1", E1, FALSE, NoArg, NoArg, Arg(PhotoPng), api)

SpecLookup == InitUpload /\ [][NextLookup]_vars

----------------------------------------------------------------------------
(* The store: a handler saves the document it holds and the file is read    *)
(* back                                                                      *)

StoreProjects == {"P1", PyNone}

StoreStructures == {E1, NoneName}

StoreRecords == {Record(s, c) : s \in {PENDING, "valid"}, c \in Comments}

\* The documents a handler can hold when it saves
StoreDocs ==
    {[validations |-> v] :
        v \in PartialFns(StoreProjects, PartialFns(StoreStructures, StoreRecords))}

\* Client a holds a document; the file has no record yet
InitStore ==
    /\ project_data = ("P1" :> EmptyMap)
    /\ validation_data = [validations |-> EmptyMap]
    /\ output_json = NoFile
    /\ results_json = NoFile
    /\ last = NoRequest
    /\ \E d \in StoreDocs :
           inflight = [c \in Clients |->
                          IF c = "a"
                          THEN Request("save_validation_data", "", NoName, "", "", d)
                          ELSE Idle]
    /\ committed = EmptyMap
    /\ stale_write = FALSE

\* save_validation_data(d), then load_validation_data()
SaveAndLoad(c) ==
    /\ inflight[c].route = "save_validation_data"
    /\ validation_data' = Stored(inflight[c].snapshot)
    /\ UNCHANGED <<project_data, output_json, results_json, last, conc>>

NextStore == \E c \in Clients : SaveAndLoad(c)

SpecStore == InitStore /\ [][NextStore]_vars

----------------------------------------------------------------------------
(* Distances: angles are counted in steps of 15 degrees (pi/12 radians) and *)
(* reals are fixed-point numbers with three decimals                         *)

\* 1000 * sin(k * 15 degrees) for k = 0..6
SinTable == <<0, 259, 500, 707, 866, 966, 1000>>

\* The real number 1
One == SinTable[7]

\* x * y of two fixed-point numbers
Mul(x, y) == (x * y) \div One

\* math.sin over the whole circle of 24 steps
sin(x) ==
    LET k == x % 24
    IN  IF k <= 6 THEN SinTable[k + 1]
        ELSE IF k <= 12 THEN SinTable[13 - k]
        ELSE IF k <= 18 THEN 0 - SinTable[k - 11]
        ELSE 0 - SinTable[25 - k]

\* math.cos
cos(x) == sin(x + 6)

\* math.sqrt of a number between 0 and 1
sqrt(x) == CHOOSE r \in 0..One : r * r <= x * One /\ x * One < (r + 1) * (r + 1)

\* math.atan2 in the first quadrant: the last step whose tangent is at most y / x
atan2(y, x) ==
    CHOOSE k \in 0..6 :
        /\ sin(k) * x <= y * cos(k)
        /\ \A j \in (k + 1)..6 : sin(j) * x > y * cos(j)

\* math.radians of a number of degrees
radians(deg) == deg \div 15

\* Earth radius in kilometres
r == 6371

\* Mutant: the second latitude stands where the difference of latitudes should
Haversine_LatitudeNotSubtracted(lat1_rad, lat2_rad, dlat, dlon) ==
    Mul(sin(lat2_rad \div 2), sin(lat2_rad \div 2))
        + Mul(Mul(cos(lat1_rad), cos(lat2_rad)), Mul(sin(dlon \div 2), sin(dlon \div 2)))

\* a of calculate_distance
Haversine(lat1_rad, lat2_rad, dlat, dlon) ==
    Mul(sin(dlat \div 2), sin(dlat \div 2))
        + Mul(Mul(cos(lat1_rad), cos(lat2_rad)), Mul(sin(dlon \div 2), sin(dlon \div 2)))

\* The distance in kilometres; a step of the angle c is pi/12 = 0.2618 radians
calculate_distance(lat1, lon1, lat2, lon2) ==
    LET lat1_rad == radians(lat1)
        lon1_rad == radians(lon1)
        lat2_rad == radians(lat2)
        lon2_rad == radians(lon2)
        dlat == lat2_rad - lat1_rad
        dlon == lon2_rad - lon1_rad
        a == Haversine(lat1_rad, lat2_rad, dlat, dlon)
        c == 2 * atan2(sqrt(a), sqrt(One - a))
    IN  (r * c * 2618) \div 10000

Latitudes == {-60, 0, 30, 90}

Longitudes == {-180, -90, 0, 120}

\* The arguments of one call
DistanceArgs == Latitudes \X Longitudes \X Latitudes \X Longitudes

\* The same two points in the other order
Swapped(x) == <<x[3], x[4], x[1], x[2]>>

\* Client a is about to measure from the first point to the second, client b
\* from the second to the first
InitDistance ==
    /\ project_data = ("P1" :> EmptyMap)
    /\ validation_data = [validations |-> EmptyMap]
    /\ output_json = NoFile
    /\ results_json = NoFile
    /\ last = NoRequest
    /\ \E x \in DistanceArgs :
           inflight = [c \in Clients |->
                          Request("calculate_distance", "", NoName, "", "",
                                  IF c = "a" THEN x ELSE Swapped(x))]
    /\ committed = EmptyMap
    /\ stale_write = FALSE

\* One call of calculate_distance; its result is kept under its arguments
CalculateDistance(c) ==
    LET x == inflight[c].snapshot
    IN  /\ inflight[c].route = "calculate_distance"
        /\ x \notin DOMAIN committed
        /\ committed' = committed @@ (x :> calculate_distance(x[1], x[2], x[3], x[4]))
        /\ UNCHANGED <<project_data, validation_data, output_json, results_json,
                       last, inflight, stale_write>>

NextDistance == \E c \in Clients : CalculateDistance(c)

SpecDistance == InitDistance /\ [][NextDistance]_vars

----------------------------------------------------------------------------
(* New structures: two inspectors ask for a name, photograph the structure  *)
(* and give their verdict; structures are also added by name                 *)

\* Names are generated while a project has fewer than MaxNew of them
MaxNew == 2

Nova2 == NovaName(2)

\* Latitude or longitude as a form sends it: absent, empty, not a number, a number
CoordinateArgs == {NoArg, Arg(""), Arg("abc"), Arg("-3.7"), Arg("38.5")}

\* The coordinates an inspector starts a new structure with
NewStarts == {<<Arg("-3.7"), Arg("38.5")>>, <<NoArg, NoArg>>}

\* Structures added by name under every kind of coordinates, between verdicts
NextAdd ==
    \/ \E s \in {E1, Nova1}, lat \in CoordinateArgs, lon \in CoordinateArgs :
           AddStructureToProject("P1", s, lat, lon)
    \/ ResultsPost("P1", E1, FALSE, NoArg, NoArg, "invalidate_structure", "obs", FALSE)

SpecAdd == InitUpload /\ [][NextAdd]_vars

\* Projects of one to five structures: new structures are validated at two
\* places, structures are added by name, and the selection page is asked for
NextSelect ==
    \/ \E p \in Projects,
          m \in {<<"GET", "">>, <<"POST", "start_A">>, <<"POST", "start_B">>} :
           SelectStructure(p, m[1], m[2])
    \/ \E p \in Projects, s \in {Nova1, Nova2},
          x \in {<<Arg("-3.7"), Arg("38.5")>>, <<Arg("38.5"), Arg("-3.7")>>} :
           ResultsPost(p, s, TRUE, x[1], x[2], "validate_structure", "", TRUE)
    \/ \E p \in Projects : AddStructureToProject(p, Nova2, Arg("-3.7"), Arg("38.5"))

SpecSelect == InitUpload /\ [][NextSelect]_vars

\* The inference of a pole with a crossarm alone
DocCrossarm == <<<<Cruzeta, TRUE>>>>

\* upload_photo POST by inspector c, who follows the redirect to results;
\* the snapshot is the inference of this upload
InspectorUploads(c, s, api) ==
    /\ UploadPhotoWrites("POST", "P1", s, FALSE, NoArg, NoArg, Arg(PhotoPng), api)
    /\ inflight' =
           IF last'.target = "results"
           THEN [inflight EXCEPT ![c] =
                    Request("results", "P1", s, "", "", GeneratedOutput(api))]
           ELSE [inflight EXCEPT ![c] = Idle]
    /\ UNCHANGED <<committed, stale_write>>

\* results GET by inspector c, after the redirect of the upload
InspectorViews(c) ==
    /\ inflight[c].route = "results"
    /\ ResultsGetWrites(inflight[c].project, inflight[c].structure, FALSE)
    /\ inflight' = [inflight EXCEPT ![c] = Idle]
    /\ UNCHANGED <<committed, stale_write>>

\* Two inspectors, each on a structure of its own, one request at a time
NextInspect ==
    \/ \E api \in {Completion(<<Obj(DocPole)>>), Completion(<<Obj(DocCrossarm)>>),
                     Completion(<<Obj(DocUnrelated)>>), NoChoices} :
           \/ InspectorUploads("a", E1, api)
           \/ InspectorUploads("b", E2, api)
    \/ \E c \in Clients : InspectorViews(c)

SpecInspect == InitUpload /\ [][NextInspect]_vars

InitNew == InitUpload

\* The inspector follows the redirect to upload_photo, which carries the
\* generated name and the coordinates
Follow(c, response, lat, lon) ==
    IF response.target = "upload_photo"
    THEN [inflight EXCEPT ![c] =
             Request("upload_photo", response.project, response.structure, "", "",
                     <<lat, lon>>)]
    ELSE inflight

\* add_new_structure POST by inspector c
StartNewStructure(c, p, lat, lon) ==
    /\ inflight[c] = Idle
    /\ Cardinality({k \in DOMAIN RecordsOf(validation_data, p) : StartsWithNova(k)}) < MaxNew
    /\ last' = AddNewStructureResponse("POST", p, Arg("nova"), lat, lon)
    /\ inflight' = Follow(c, last', lat, lon)
    /\ UNCHANGED <<project_data, validation_data, output_json, results_json,
                   committed, stale_write>>

\* add_and_upload by inspector c
StartAddAndUpload(c, p, lat, lon) ==
    /\ inflight[c] = Idle
    /\ Cardinality({k \in DOMAIN RecordsOf(validation_data, p) : StartsWithNova(k)}) < MaxNew
    /\ last' = AddAndUploadResponse(p)
    /\ inflight' = Follow(c, last', lat, lon)
    /\ UNCHANGED <<project_data, validation_data, output_json, results_json,
                   committed, stale_write>>

\* results POST by inspector c for the new structure of the redirect, after
\* an upload_photo page that did not fail on the coordinates
DecideNewStructure(c, action, comments, hasNext) ==
    LET q == inflight[c]
    IN  /\ q.route = "upload_photo"
        /\ ~RoundingFails(q.snapshot[1], q.snapshot[2])
        /\ action \in {"validate_structure", "invalidate_structure"}
        /\ ResultsWrites(q.project, q.structure, TRUE, q.snapshot[1], q.snapshot[2],
                         action, comments, hasNext)
        /\ inflight' = [inflight EXCEPT ![c] = Idle]
        /\ UNCHANGED <<output_json, results_json, committed, stale_write>>

NextNew ==
    \/ \E c \in Clients, x \in NewStarts : StartNewStructure(c, "P1", x[1], x[2])
    \/ \E c \in Clients, x \in NewStarts : StartAddAndUpload(c, "P1", x[1], x[2])
    \/ \E c \in Clients, action \in {"validate_structure", "invalidate_structure"},
          hasNext \in BOOLEAN :
           DecideNewStructure(c, action, "obs", hasNext)
    \/ \E s \in {E1, E2, E3} :
           ResultsPost("P1", s, FALSE, NoArg, NoArg, "validate_structure", "", TRUE)
    \/ ProjectSummary("P1")

SpecNew == InitNew /\ [][NextNew]_vars

----------------------------------------------------------------------------
(* The diff report of an existing structure *)

\* The last request was a results GET of an existing structure, and it rendered
DiffShown ==
    /\ last.route = "results" /\ last.method = "GET"
    /\ ~last.new_structure /\ last.outcome = "render"

ShownGabarito == project_data[last.project][last.structure].Gabarito

ShownDiff == results_json.doc

Detected == output_json.doc

\* C1: in the diff of an existing structure the keys of 'Itens Verificados'
\* are exactly the keys of the Gabarito, each classified "Sim" or "Não".
C1_VerificadosAreGabarito ==
    DiffShown =>
        /\ DOMAIN ShownDiff.verificados = DOMAIN ShownGabarito
        /\ \A item \in DOMAIN ShownGabarito :
               ShownDiff.verificados[item] \in {"Sim", "Não"}

C1_Witness ==
    /\ DiffShown
    /\ \E i, j \in DOMAIN ShownGabarito :
           /\ ShownDiff.verificados[i] = "Sim"
           /\ ShownDiff.verificados[j] = "Não"
    /\ \E k \in DictKeySet(Detected) : k \notin DOMAIN ShownGabarito

\* C2: 'Itens Extras' lists exactly once every detected key that is neither in
\* the Gabarito, nor a 'Características do ...' key, nor 'Quantidades', and
\* lists nothing else; no item is both verified and extra.
C2_ExtrasAreUnexpected ==
    DiffShown =>
        LET extras == ShownDiff.extras
            listed == {extras[i] : i \in 1..Len(extras)}
            all == DictKeySet(Detected) \cup DOMAIN ShownGabarito \cup listed
        IN  /\ \A k \in all :
                   Count(extras, k) =
                       IF /\ k \in DictKeySet(Detected)
                          /\ k \notin DOMAIN ShownGabarito
                          /\ (Len(k) < 2 \/ SubSeq(k, 1, 2) # <<"Características", "do">>)
                          /\ k # <<"Quantidades">>
                       THEN 1 ELSE 0
            /\ listed \cap DOMAIN ShownDiff.verificados = {}

C2_Witness ==
    /\ DiffShown
    /\ Len(ShownDiff.extras) = 1
    /\ DictHas(Detected, QuantKey)
    /\ \E k \in DictKeySet(Detected) : StartsWithCar(k)
    /\ \E k \in DictKeySet(Detected) : k \in DOMAIN ShownGabarito

C3_FalseValueFound ==
    /\ DiffShown
    /\ \E item \in DOMAIN ShownGabarito :
           /\ DictHas(Detected, item) /\ DictAt(Detected, item) = FALSE
           /\ ShownDiff.verificados[item] = "Sim"

\* The items the diff reports: found in the Gabarito, or extra
Reported ==
    {item \in DOMAIN ShownGabarito : ShownDiff.verificados[item] = "Sim"}
        \cup {ShownDiff.extras[i] : i \in 1..Len(ShownDiff.extras)}

CarEntry(item) ==
    IF item \in DOMAIN ShownDiff.caracteristicas
    THEN ShownDiff.caracteristicas[item]
    ELSE EmptyMap

HasCount(item) ==
    DictHas(Detected, QuantKey) /\ item \in DOMAIN DictAt(Detected, QuantKey)

\* C4: every reported item (found or extra) has in 'Características' all the
\* fields of its detected 'Características do <item>' mapping and, when
\* 'Quantidades' counts it, 'Quantidade Identificada' equal to that count.
C4_CharacteristicsMerged ==
    DiffShown =>
        \A item \in Reported :
            LET car == DictGet(Detected, CarKey(item), EmptyMap)
            IN  /\ \A f \in DOMAIN car :
                       /\ f \in DOMAIN CarEntry(item)
                       /\ (f # QuantField => CarEntry(item)[f] = car[f])
                /\ HasCount(item) =>
                       /\ QuantField \in DOMAIN CarEntry(item)
                       /\ CarEntry(item)[QuantField] = DictAt(Detected, QuantKey)[item]

\* The same statement for the found items alone, which the code satisfies
C4_FoundItemsMerged ==
    DiffShown =>
        \A item \in {i \in DOMAIN ShownGabarito : ShownDiff.verificados[i] = "Sim"} :
            LET car == DictGet(Detected, CarKey(item), EmptyMap)
            IN  /\ \A f \in DOMAIN car :
                       /\ f \in DOMAIN CarEntry(item)
                       /\ (f # QuantField => CarEntry(item)[f] = car[f])
                /\ HasCount(item) =>
                       /\ QuantField \in DOMAIN CarEntry(item)
                       /\ CarEntry(item)[QuantField] = DictAt(Detected, QuantKey)[item]

----------------------------------------------------------------------------
(* The validation store *)

\* validation_data.get('validations', {})
ValidationsOf(vd) == IF HasValidations(vd) THEN vd.validations ELSE EmptyMap

\* The (project, structure) pairs that have a validation record
Recorded(vd) ==
    UNION {{<<p, s>> : s \in DOMAIN ValidationsOf(vd)[p]} : p \in DOMAIN ValidationsOf(vd)}

RecordAt(vd, k) == vd.validations[k[1]][k[2]]

\* The statuses stored for the structures of the store
StatusesStored == {RecordAt(validation_data, k).status : k \in Recorded(validation_data)}

\* C6: in every reachable state of the validation store the status of every
\* record is one of the four values pending ('to_be_validated' in the store),
\* valid, invalid, extra.
C6_StatusIsOneOfFour ==
    \A k \in Recorded(validation_data) :
        RecordAt(validation_data, k).status \in {"to_be_validated", "valid", "invalid", "extra"}

C6_Witness ==
    /\ {"to_be_validated", "valid", "extra"} \subseteq StatusesStored
    /\ Cardinality(Recorded(validation_data)) >= 4

\* Invalid is stored as well
C6_InvalidStored ==
    /\ {"to_be_validated", "invalid", "extra"} \subseteq StatusesStored

\* C7: a select_structure request for a project of the project store, whatever
\* the validation store holds (no 'validations' key and no entry for the
\* project included), completes having saved a record with pending status and
\* empty comment for every structure of the project that had none, so that
\* every structure of the project has a record.
C7_RecordsCreatedOnFirstView ==
    [][(last'.route = "select_structure" /\ last'.project \in DOMAIN project_data)
        => \A s \in DOMAIN project_data[last'.project] :
               /\ HasRecord(validation_data', last'.project, s)
               /\ ~HasRecord(validation_data, last'.project, s)
                      => RecordAt(validation_data', <<last'.project, s>>)
                             = Record("to_be_validated", "")]_vars

\* The same statement for a store that already has the entry of the project,
\* where line 121 finds its key
C7_CreatedWhenProjectListed ==
    [][(/\ last'.route = "select_structure"
        /\ last'.project \in DOMAIN project_data
        /\ last'.project \in DOMAIN ValidationsOf(validation_data))
        => \A s \in DOMAIN project_data[last'.project] :
               /\ HasRecord(validation_data', last'.project, s)
               /\ ~HasRecord(validation_data, last'.project, s)
                      => RecordAt(validation_data', <<last'.project, s>>)
                             = Record("to_be_validated", "")]_vars

\* select_structure answered a project of the store with an unhandled error
\* and no structure of the project has a record
C7_FirstViewFails ==
    /\ last.route = "select_structure" /\ last.outcome = "error"
    /\ last.project \in DOMAIN project_data
    /\ \A s \in DOMAIN project_data[last.project] :
           ~HasRecord(validation_data, last.project, s)

\* The request of the step is a verdict on, or the ad hoc addition of, k
IsUserVerdict(resp, k) ==
    /\ resp.project = k[1] /\ resp.structure = k[2]
    /\ \/ /\ resp.route = "results" /\ resp.method = "POST"
          /\ resp.action \in {"validate_structure", "invalidate_structure"}
       \/ resp.route = "add_structure_to_project"

ReadOnlyRoutes ==
    {"home", "project_summary", "select_structure", "validate_project",
     "check_validation_status", "upload_photo", "get_structure_coordinates",
     "add_new_structure", "add_and_upload"}

\* The request of the step is one the store's existing records are safe from
IsReadOnly(resp) ==
    \/ resp.route \in ReadOnlyRoutes
    \/ resp.route = "results" /\ resp.method = "GET"
    \/ resp.route = "results" /\ resp.method = "POST" /\ resp.action = "remove_photo"

----------------------------------------------------------------------------
(* Rejected uploads *)

\* The file names with no extension or with one that is not an image's
BadNames == {NameNoDot, NameDotEnd, PhotoTxt, NamePngTxt}

\* The step is an upload_photo POST of a file of the given names
UploadOf(names) ==
    /\ last' # last
    /\ last'.route = "upload_photo" /\ last'.method = "POST"
    /\ IsGiven(last'.file) /\ TextOf(last'.file) \in names

\* C10: an upload_photo POST whose file name has no extension, or one outside
\* png, jpg, jpeg, gif, produces a user-visible message and changes no state:
\* no inference call, output.json not rewritten, both stores unchanged.
C10_BadExtensionRejected ==
    [][UploadOf(BadNames)
        => /\ last'.flash # << >>
           /\ ~last'.api_call
           /\ UNCHANGED <<output_json, project_data, validation_data>>]_vars

\* The part of it about the state, which holds of every such request
C10_BadExtensionChangesNothing ==
    [][UploadOf(BadNames)
        => /\ ~last'.api_call
           /\ UNCHANGED <<output_json, project_data, validation_data>>]_vars

\* The message is flashed when the request has answered at all
C10_MessageUnlessCrash ==
    [][UploadOf(BadNames) /\ last'.outcome # "error"
        => last'.flash = <<"Formato de arquivo inválido. Apenas imagens são permitidas.">>]_vars

\* An image name is accepted whatever its case and its earlier dots
C10_ImageAccepted ==
    [][UploadOf({PhotoPng, NameTxtGif}) /\ last'.outcome # "error"
        => last'.api_call /\ output_json'.exists]_vars

----------------------------------------------------------------------------
(* Lost updates *)

\* A verdict a results POST has saved, and no later results POST has replaced,
\* is not what the store holds for the structure
LostUpdate ==
    \E k \in DOMAIN committed :
        \/ k \notin Recorded(validation_data)
        \/ RecordAt(validation_data, k) # committed[k]

AllIdle == \A c \in Clients : inflight[c] = Idle

\* C5: handlers load the whole validation document, change it in memory and
\* write it back without locking, so two overlapping requests on one project
\* can interleave so that a verdict one of them saved is absent from the final
\* store; a verdict is lost in no other way than by the save of a request
\* whose loaded document another request's save had replaced.
C5_LostOnlyByStaleWrite == LostUpdate => stale_write

\* Two results POSTs validating different structures have both completed and
\* the store holds the verdict of one of them alone
C5_Witness ==
    /\ AllIdle
    /\ DOMAIN committed = {<<"P1", E1>>, <<"P1", E2>>}
    /\ committed[<<"P1", E1>>].status = "valid"
    /\ committed[<<"P1", E2>>].status = "valid"
    /\ <<"P1", E1>> \notin Recorded(validation_data)
    /\ RecordAt(validation_data, <<"P1", E2>>) = committed[<<"P1", E2>>]

\* A select_structure that overlapped a results POST has put the structure
\* back to pending
C5_SelectOverwritesVerdict ==
    /\ AllIdle
    /\ last.route = "select_structure"
    /\ DOMAIN committed = {<<"P1", E1>>}
    /\ RecordAt(validation_data, <<"P1", E1>>) = Record("to_be_validated", "")

----------------------------------------------------------------------------
(* Failed inferences *)

\* The step is an upload whose inference call returned
Inferred == last'.route = "upload_photo" /\ last'.api_call

\* The completion has no choices, or its content is empty or all spaces, or
\* its content has no code-fence marker and is not one JSON object
IsBlank(content) == \A i \in 1..Len(content) : content[i][1] = " "

HasTick(content) == \E i \in 1..Len(content) : content[i][1] = "tick"

Trimmed(content) == SelectSeq(content, LAMBDA x : x[1] # " ")

IsOneObject(content) == Len(Trimmed(content)) = 1 /\ Trimmed(content)[1][1] = "{}"

Undecodable(api) ==
    \/ ~api.choices
    \/ IsBlank(api.content)
    \/ ~HasTick(api.content) /\ ~IsOneObject(api.content)

MensagemOnly(doc) == Len(doc) = 1 /\ doc[1][1] = <<"mensagem">>

\* C11: when the completion call returns no choices, empty or whitespace-only
\* content, or content that cannot be decoded as JSON, generate_new_output_json
\* overwrites output.json with a fallback object whose only key is 'mensagem';
\* the inference of the previous upload does not remain there.
C11_FallbackWritten ==
    [][Inferred /\ Undecodable(last'.completion)
        => /\ output_json'.exists
           /\ MensagemOnly(output_json'.doc)
           /\ output_json'.doc[1][2] \in
                  {"Erro na resposta da API. Por favor, tente novamente.",
                   "Erro ao processar a resposta da API. Por favor, tente novamente."}]_vars

\* The results page still shows the diff of an earlier inference (an extra
\* lamp) while output.json holds the fallback of a later, undecodable one
C11_Witness ==
    /\ last.route = "upload_photo" /\ last.api_call
    /\ last.completion.choices /\ ~IsBlank(last.completion.content)
    /\ Undecodable(last.completion)
    /\ MensagemOnly(output_json.doc)
    /\ results_json.exists /\ results_json.doc.extras = <<Luminaria>>

\* generate_new_output_json has written one of its fallback objects
FallbackWritten ==
    /\ Inferred
    /\ MensagemOnly(output_json'.doc)
    /\ output_json'.doc[1][2] \in
           {"Erro na resposta da API. Por favor, tente novamente.",
            "Erro ao processar a resposta da API. Por favor, tente novamente."}

\* C12: when the adapter has written a fallback error JSON (no choices, empty
\* response or non-JSON response), upload_photo shows a retry message and
\* returns to the upload page, and does not redirect to the results page.
C12_FallbackShortCircuits ==
    [][FallbackWritten
        => /\ last'.flash # << >>
           /\ last'.target = "upload_photo"]_vars

\* What the code does instead: the upload goes on to the results page, with no
\* message
C12_FallbackGoesToResults ==
    [][FallbackWritten
        => /\ last'.flash = << >>
           /\ last'.outcome = "redirect" /\ last'.target = "results"]_vars

----------------------------------------------------------------------------
(* Sentinel inferences *)

\* The inference written to output.json says the given sentence
Says(doc, sentence) ==
    \E i \in 1..Len(doc) : doc[i][1] = <<"mensagem">> /\ doc[i][2] = sentence

\* C13: when the inference written to output.json contains 'Imagem não
\* relacionada.' or 'Imagem sem qualidade.', upload_photo flashes the
\* corresponding message, returns to the upload page, does not redirect to
\* results, and leaves the project and validation stores unchanged.
C13_SentinelSurfaced ==
    [][Inferred
        => /\ Says(output_json'.doc, "Imagem não relacionada.")
                  => /\ last'.flash = <<"A imagem enviada não é válida.">>
                     /\ last'.outcome = "redirect" /\ last'.target = "upload_photo"
                     /\ UNCHANGED <<project_data, validation_data>>
           /\ (/\ Says(output_json'.doc, "Imagem sem qualidade.")
               /\ ~Says(output_json'.doc, "Imagem não relacionada."))
                  => /\ last'.flash = <<"A imagem enviada não tem qualidade.">>
                     /\ last'.outcome = "redirect" /\ last'.target = "upload_photo"
                     /\ UNCHANGED <<project_data, validation_data>>]_vars

C13_Witness ==
    /\ last.route = "upload_photo" /\ last.api_call
    /\ Says(output_json.doc, "Imagem não relacionada.")
    /\ last.flash = <<"A imagem enviada não é válida.">>
    /\ last.target = "upload_photo"

\* The same for a photo without quality
C13_LowQualitySurfaced ==
    /\ last.route = "upload_photo" /\ last.api_call
    /\ Says(output_json.doc, "Imagem sem qualidade.")
    /\ last.flash = <<"A imagem enviada não tem qualidade.">>
    /\ last.target = "upload_photo"

----------------------------------------------------------------------------
(* Code-fence markers *)

TickJson == <<Ch("tick"), Ch("tick"), Ch("tick"), Ch("j"), Ch("s"), Ch("o"), Ch("n")>>

Ticks == <<Ch("tick"), Ch("tick"), Ch("tick")>>

\* The responses made of the JSON object text alone, preceded by an opening
\* marker, followed by a closing marker, or wrapped in both
Wrappings(object) ==
    {open \o gap1 \o <<object>> \o gap2 \o close :
        open \in {<< >>, Ticks, TickJson}, gap1 \in {<< >>, <<Ch(" ")>>},
        gap2 \in {<< >>, <<Ch(" ")>>}, close \in {<< >>, Ticks}}

\* The wrappings that open with the json marker and have no closing marker
OpenJsonOnly(object) ==
    {TickJson \o gap1 \o <<object>> \o gap2 :
        gap1 \in {<< >>, <<Ch(" ")>>}, gap2 \in {<< >>, <<Ch(" ")>>}}

\* The last request was an upload whose inference call returned
Parsed == last.route = "upload_photo" /\ last.api_call

\* C14: a response made of a JSON object text alone, preceded by an opening
\* marker (with or without 'json'), followed by a closing marker, or wrapped
\* in both, is decoded to the same object, which is what output.json holds.
C14_FencesStripped ==
    Parsed =>
        \A doc \in {DocPole, DocUnrelated} :
            last.completion.content \in Wrappings(Obj(doc)) => output_json.doc = doc

\* The same, the json marker without a closing marker left out
C14_StrippedUnlessOpenJsonOnly ==
    Parsed =>
        \A doc \in {DocPole, DocUnrelated} :
            last.completion.content \in Wrappings(Obj(doc)) \ OpenJsonOnly(Obj(doc))
                => output_json.doc = doc

\* The json marker without a closing marker ends in the fallback object
C14_OpenJsonOnlyFails ==
    Parsed =>
        \A doc \in {DocPole, DocUnrelated} :
            last.completion.content \in OpenJsonOnly(Obj(doc))
                => output_json.doc =
                       <<<<<<"mensagem">>,
                           "Erro ao processar a resposta da API. Por favor, tente novamente.">>>>

----------------------------------------------------------------------------
(* Missing keys *)

\* The request of the step names a project, or a structure, the project store
\* does not have
ProjectMissing == last'.project \notin DOMAIN project_data

StructureMissing ==
    \/ last'.project \notin DOMAIN project_data
    \/ last'.structure \notin DOMAIN project_data[last'.project]

\* The step is a results GET of an existing structure that found output.json
ResultsLookup ==
    /\ last'.route = "results" /\ last'.method = "GET"
    /\ ~last'.new_structure /\ output_json.exists

\* C15 as stated: project_summary, select_structure, get_structure_coordinates
\* and results GET end in an unhandled lookup failure, not in an error
\* response, when the project or structure asked for is missing from the
\* project store.
C15_EveryLookupCrashes ==
    [][/\ last'.route \in {"project_summary", "select_structure"} /\ ProjectMissing
              => last'.outcome = "error"
       /\ last'.route = "get_structure_coordinates" /\ StructureMissing
              => last'.outcome = "error"
       /\ ResultsLookup /\ StructureMissing
              => last'.outcome = "error"]_vars

\* C15 amended: select_structure and results GET end in an unhandled lookup
\* failure on a missing key; project_summary answers a missing project with a
\* message and a redirect to home, get_structure_coordinates answers a missing
\* project or structure with a not-found response.
C15_LookupFailures ==
    [][/\ last'.route = "select_structure" /\ ProjectMissing
              => last'.outcome = "error"
       /\ ResultsLookup /\ StructureMissing
              => last'.outcome = "error"
       /\ last'.route = "project_summary" /\ ProjectMissing
              => /\ last'.outcome = "redirect" /\ last'.target = "home"
                 /\ last'.flash = <<"Projeto não encontrado.">>
       /\ last'.route = "get_structure_coordinates" /\ StructureMissing
              => last'.outcome = "not_found"]_vars

\* A results GET of a structure the project does not have has failed, with
\* output.json in place
C15_Witness ==
    /\ last.route = "results" /\ last.method = "GET" /\ ~last.new_structure
    /\ last.outcome = "error"
    /\ output_json.exists
    /\ last.project \in DOMAIN project_data
    /\ last.structure \notin DOMAIN project_data[last.project]

\* The graceful answers
C15_SummaryAnswers ==
    /\ last.route = "project_summary" /\ last.project \notin DOMAIN project_data
    /\ last.outcome = "redirect"

C15_CoordinatesAnswer ==
    /\ last.route = "get_structure_coordinates"
    /\ last.project \notin DOMAIN project_data
    /\ last.outcome = "not_found"

----------------------------------------------------------------------------
(* Sides of the traversal *)

\* The step is a select_structure POST that started the validation
Started ==
    /\ last'.route = "select_structure" /\ last'.outcome = "redirect"
    /\ last'.action \in {"start_A", "start_B"}

----------------------------------------------------------------------------
(* Round trip of the validation document *)

\* The document the handler of the step saves
Held == inflight["a"].snapshot

\* C17 as stated: for every validation mapping d, load_validation_data()
\* after save_validation_data(d) returns a mapping equal to d.
C17_RoundTripEqual == [][validation_data' = Held]_vars

\* C17 amended: the mapping read back has every status and comment of d, under
\* the same project and structure names, and is equal to d, when the names
\* are strings; a name that is None (a request without the parameter) is read
\* back as the string 'null', with its records preserved.
C17_RoundTripOfNames ==
    [][/\ \A p \in DOMAIN Held.validations :
              \A s \in DOMAIN Held.validations[p] :
                  LET p2 == IF p = "None" THEN "null" ELSE p
                      s2 == IF s = <<"None">> THEN <<"null">> ELSE s
                  IN  /\ p2 \in DOMAIN validation_data'.validations
                      /\ s2 \in DOMAIN validation_data'.validations[p2]
                      /\ validation_data'.validations[p2][s2] = Held.validations[p][s]
       /\ (/\ "None" \notin DOMAIN Held.validations
           /\ \A p \in DOMAIN Held.validations :
                  <<"None">> \notin DOMAIN Held.validations[p])
              => validation_data' = Held]_vars

\* A document with records that came back as it was saved
C17_Witness ==
    /\ validation_data = Held
    /\ "P1" \in DOMAIN validation_data.validations
    /\ E1 \in DOMAIN validation_data.validations["P1"]
    /\ validation_data.validations["P1"][E1] = [status |-> "valid", comments |-> "obs"]

\* A record saved under None has come back under 'null'
C17_NoneComesBackNull ==
    /\ "None" \in DOMAIN Held.validations
    /\ "null" \in DOMAIN validation_data.validations
    /\ "None" \notin DOMAIN validation_data.validations

----------------------------------------------------------------------------
(* Distances *)

\* C18: calculate_distance returns 0 when both points have the same
\* coordinates, and the distance from the first point to the second is the
\* distance from the second to the first.
C18_ZeroAndSymmetric ==
    \A x \in DOMAIN committed :
        /\ (x[1] = x[3] /\ x[2] = x[4]) => committed[x] = 0
        /\ <<x[3], x[4], x[1], x[2]>> \in DOMAIN committed
               => committed[<<x[3], x[4], x[1], x[2]>>] = committed[x]

\* Two different points at different latitudes measured in both orders, some
\* kilometres apart
C18_Witness ==
    \E x \in DOMAIN committed :
        /\ x[1] # x[3]
        /\ x[2] # x[4]
        /\ <<x[3], x[4], x[1], x[2]>> \in DOMAIN committed
        /\ committed[x] > 0

\* A point measured against itself
C18_SamePointMeasured ==
    \E x \in DOMAIN committed : x[1] = x[3] /\ x[2] = x[4] /\ committed[x] = 0

----------------------------------------------------------------------------
(* The inference file *)

\* The step is an upload_photo POST with an allowed file that did not fail
\* before the inference
AllowedUpload ==
    /\ last'.route = "upload_photo" /\ last'.method = "POST"
    /\ IsGiven(last'.file) /\ allowed_file(TextOf(last'.file))
    /\ last'.outcome # "error"

\* C19: after every upload_photo POST with an allowed file, output.json holds
\* the result of that upload's inference, the parsed object or the fallback
\* object, and not the result of an earlier upload.
C19_OutputIsThisUpload ==
    [][AllowedUpload
        => /\ last'.api_call
           /\ output_json' = [exists |-> TRUE, doc |-> GeneratedOutput(last'.completion)]]_vars

\* The results page still shows the diff of an earlier inference (an extra
\* lamp) while output.json holds the object of a later upload that says the
\* image is unrelated
C19_Witness ==
    /\ last.route = "upload_photo" /\ last.method = "POST" /\ last.api_call
    /\ allowed_file(TextOf(last.file))
    /\ last.completion.choices
    /\ output_json = [exists |-> TRUE, doc |-> DocUnrelated]
    /\ results_json.exists /\ results_json.doc.extras = <<Luminaria>>

----------------------------------------------------------------------------
(* The validation status of a project *)

\* The step is a check_validation_status request for a project of the
\* project store
StatusChecked ==
    /\ last'.route = "check_validation_status"
    /\ last'.project \in DOMAIN project_data

\* The structure of the project has no record, or a pending one
Unvalidated(p, s) ==
    \/ ~HasRecord(validation_data, p, s)
    \/ RecordAt(validation_data, <<p, s>>).status = "to_be_validated"

\* C20: check_validation_status reports has_unvalidated_structures = true
\* exactly when some structure of the project in the project store is pending
\* or has no validation record yet, and false only when none is.
C20_ReportsUnvalidated ==
    [][StatusChecked
        => (last'.has_unvalidated_structures
               <=> \E s \in DOMAIN project_data[last'.project] :
                       Unvalidated(last'.project, s))]_vars

\* What the route reports: true exactly when a record of the project has the
\* pending status, whatever the project store lists
C20_ReportsPendingRecords ==
    [][StatusChecked
        => (last'.has_unvalidated_structures
               <=> \E x \in Recorded(validation_data) :
                       /\ x[1] = last'.project
                       /\ RecordAt(validation_data, x).status = "to_be_validated")]_vars

\* The route has reported false for a project one of whose structures has a
\* verdict while another has no record
C20_MissedStructure ==
    /\ last.route = "check_validation_status"
    /\ ~last.has_unvalidated_structures
    /\ HasRecord(validation_data, "P1", E1)
    /\ E2 \in DOMAIN project_data["P1"]
    /\ ~HasRecord(validation_data, "P1", E2)

----------------------------------------------------------------------------
(* Structures added outside the original list *)

\* The structures the step adds to the project store
AddedStructures ==
    {x \in UNION {{<<p, s>> : s \in DOMAIN project_data'[p]} : p \in DOMAIN project_data'} :
        ~HasStructure(project_data, x[1], x[2])}

\* C21: every structure added to a project outside its original list, through
\* add_structure_to_project or through the validation of a new structure in
\* results, is marked with status 'extra' in the validation store.
C21_AddedIsMarkedExtra ==
    [][\A x \in AddedStructures :
           /\ HasRecord(validation_data', x[1], x[2])
           /\ RecordAt(validation_data', x).status = "extra"]_vars

\* The same for add_structure_to_project alone
C21_AddStructureMarksExtra ==
    [][last'.route = "add_structure_to_project"
        => \A x \in AddedStructures :
               /\ HasRecord(validation_data', x[1], x[2])
               /\ RecordAt(validation_data', x) = [status |-> "extra", comments |-> ""]]_vars

\* A new structure validated in results is in the project store with the
\* status 'valid'
C21_NewStructureIsValid ==
    /\ last.route = "results" /\ last.new_structure
    /\ last.action = "validate_structure"
    /\ HasStructure(project_data, last.project, last.structure)
    /\ HasRecord(validation_data, last.project, last.structure)
    /\ RecordAt(validation_data, <<last.project, last.structure>>).status = "valid"

----------------------------------------------------------------------------
(* The effect of a verdict *)

\* The step is a results POST with one of the two verdicts
Verdict ==
    /\ last'.route = "results" /\ last'.method = "POST"
    /\ last'.action \in {"validate_structure", "invalidate_structure"}

\* C22: after a results POST with action validate_structure (invalidate_structure)
\* for project p, structure s and comment c, the record of (p, s) is exactly
\* {status: 'valid' ('invalid'), comments: c}, whatever it was before, and the
\* record of every other structure of every project is unchanged.
C22_VerdictWritesOneRecord ==
    [][Verdict
        => LET k == <<last'.project, last'.structure>>
           IN  /\ HasRecord(validation_data', k[1], k[2])
               /\ RecordAt(validation_data', k) =
                      [status |-> IF last'.action = "validate_structure"
                                  THEN "valid" ELSE "invalid",
                       comments |-> last'.comments]
               /\ Recorded(validation_data') = Recorded(validation_data) \cup {k}
               /\ \A x \in Recorded(validation_data) \ {k} :
                      RecordAt(validation_data', x) = RecordAt(validation_data, x)]_vars

\* E1 invalidated with a comment while E2 keeps its pending record and a
\* structure of another project keeps its verdict
C22_Witness ==
    /\ last.route = "results" /\ last.method = "POST"
    /\ last.action = "invalidate_structure" /\ last.comments = "obs"
    /\ last.project = "P1" /\ last.structure = E1
    /\ HasRecord(validation_data, "P1", E1)
    /\ RecordAt(validation_data, <<"P1", E1>>) = [status |-> "invalid", comments |-> "obs"]
    /\ HasRecord(validation_data, "P1", E2)
    /\ RecordAt(validation_data, <<"P1", E2>>).status = "to_be_validated"
    /\ HasRecord(validation_data, "P2", Nova1)

----------------------------------------------------------------------------
(* Adding a structure that is there *)

\* The step is an add_structure_to_project request
AddRequested == last'.route = "add_structure_to_project"

\* C23: add_structure_to_project never overwrites and is idempotent: when the
\* named structure is already a key of the project in the project store, the
\* request leaves the project store and the validation store unchanged; and a
\* request that changed the stores has made the structure such a key, so that
\* the same request once more changes nothing.
C23_AddNeverOverwrites ==
    [][AddRequested
        => /\ HasStructure(project_data, last'.project, last'.structure)
                  => project_data' = project_data /\ validation_data' = validation_data
           /\ \/ project_data' = project_data /\ validation_data' = validation_data
              \/ HasStructure(project_data', last'.project, last'.structure)]_vars

\* A structure added, then invalidated with a comment, then added once more:
\* its verdict is still there
C23_Witness ==
    /\ last.route = "add_structure_to_project"
    /\ last.flash = << >> /\ last.target = "project_summary"
    /\ last.project = "P2" /\ last.structure = Nova1
    /\ HasStructure(project_data, "P2", Nova1)
    /\ HasRecord(validation_data, "P2", Nova1)
    /\ RecordAt(validation_data, <<"P2", Nova1>>) = [status |-> "invalid", comments |-> "obs"]

----------------------------------------------------------------------------
(* Adding a structure without coordinates *)

\* The argument is missing, empty or not a number
BadCoordinate(a) == a = << >> \/ a[1] \in {"", "abc"}

\* C24: add_structure_to_project with a missing, empty or non-numeric latitude
\* or longitude shows a message and leaves the project store and the
\* validation store unchanged.
C24_BadCoordinatesRefused ==
    [][(AddRequested /\ (BadCoordinate(last'.latitude) \/ BadCoordinate(last'.longitude)))
        => /\ last'.flash \in {<<"Latitude e Longitude são obrigatórias.">>,
                               <<"Latitude e Longitude devem ser números válidos.">>}
           /\ last'.outcome = "redirect"
           /\ project_data' = project_data
           /\ validation_data' = validation_data]_vars

\* A structure asked for with a latitude that is not a number: the message is
\* shown and the structure is in neither store, while another has its verdict
C24_Witness ==
    /\ last.route = "add_structure_to_project"
    /\ last.latitude = <<"abc">> /\ last.longitude = <<"38.5">>
    /\ last.flash = <<"Latitude e Longitude devem ser números válidos.">>
    /\ last.structure = Nova1
    /\ ~HasStructure(project_data, last.project, Nova1)
    /\ ~HasRecord(validation_data, last.project, Nova1)
    /\ HasRecord(validation_data, "P1", E1)

----------------------------------------------------------------------------
(* Generated names *)

\* The step is the validation of a new structure in results
NewValidated ==
    /\ last'.route = "results" /\ last'.method = "POST"
    /\ last'.new_structure
    /\ last'.action = "validate_structure"

\* C25: the name 'Nova Estrutura N' produced by add_new_structure or
\* add_and_upload is never the name of a structure that already exists in the
\* project, in the validation or the project store, at the moment the new
\* structure is validated, so that the validation overwrites no record and no
\* coordinates of an earlier structure.
C25_GeneratedNameIsFresh ==
    [][NewValidated
        => /\ ~HasRecord(validation_data, last'.project, last'.structure)
           /\ ~HasStructure(project_data, last'.project, last'.structure)]_vars

\* Both inspectors hold the same generated name
C25_SameNameTwice ==
    /\ inflight["a"].route = "upload_photo"
    /\ inflight["b"].route = "upload_photo"
    /\ inflight["a"].project = inflight["b"].project
    /\ inflight["a"].structure = inflight["b"].structure

\* A name is handed out once more only while no record carries it: the
\* generator counts the records, not the names it has handed out
C25_FreshWhenGenerated ==
    [][last'.route \in {"add_new_structure", "add_and_upload"} /\ last'.target = "upload_photo"
        => ~HasRecord(validation_data, last'.project, last'.structure)]_vars

----------------------------------------------------------------------------
(* A new structure in both stores *)

\* C26: a results POST with action validate_structure and new_structure = true
\* either adds the structure to the validation store and to the project
\* store, or, when it fails, changes neither.
C26_NewValidationAllOrNothing ==
    [][NewValidated
        => \/ /\ HasRecord(validation_data', last'.project, last'.structure)
              /\ HasStructure(project_data', last'.project, last'.structure)
           \/ /\ validation_data' = validation_data
              /\ project_data' = project_data]_vars

\* The request has failed on the coordinates and its record is saved, for a
\* structure the project store does not have
C26_RecordWithoutStructure ==
    /\ last.route = "results" /\ last.new_structure
    /\ last.action = "validate_structure"
    /\ last.outcome = "error"
    /\ HasRecord(validation_data, last.project, last.structure)
    /\ RecordAt(validation_data, <<last.project, last.structure>>).status = "valid"
    /\ ~HasStructure(project_data, last.project, last.structure)

\* A validation that does not fail has put the structure in both stores
C26_BothWhenAnswered ==
    [][(NewValidated /\ last'.outcome # "error")
        => /\ HasRecord(validation_data', last'.project, last'.structure)
           /\ HasStructure(project_data', last'.project, last'.structure)]_vars

----------------------------------------------------------------------------
(* The summary of a project *)

\* The step renders the summary of a project
Summarised == last'.route = "project_summary" /\ last'.outcome = "render"

\* The structures of the project store that are pending or without record
NotValidated(p) ==
    {s \in DOMAIN project_data[p] :
        \/ ~HasRecord(validation_data, p, s)
        \/ RecordAt(validation_data, <<p, s>>).status \notin {"valid", "invalid", "extra"}}

\* C27: project_summary's total_nao_validadas is non-negative and equals the
\* number of structures of the project in the project store whose status is
\* neither valid, invalid nor extra, and total_validas + total_invalidas +
\* total_extras does not exceed the number of structures of the project.
C27_SummaryCountsStructures ==
    [][Summarised
        => LET resumo == last'.resumo
               p == last'.project
           IN  /\ resumo.total_nao_validadas >= 0
               /\ resumo.total_nao_validadas = Cardinality(NotValidated(p))
               /\ resumo.total_validas + resumo.total_invalidas + resumo.total_extras
                      <= Cardinality(DOMAIN project_data[p])]_vars

\* A summary with a negative number of structures still to validate
C27_NegativeCount ==
    /\ last.route = "project_summary" /\ last.outcome = "render"
    /\ last.resumo.total_nao_validadas < 0

\* What the summary counts: the records of the project by status, whether or
\* not their structure is in the project store
C27_SummaryCountsRecords ==
    [][Summarised
        => LET resumo == last'.resumo
               p == last'.project
               N(status) ==
                   Cardinality({x \in Recorded(validation_data) :
                                   /\ x[1] = p
                                   /\ RecordAt(validation_data, x).status = status})
           IN  /\ resumo.total_validas = N("valid")
               /\ resumo.total_invalidas = N("invalid")
               /\ resumo.total_extras = N("extra")
               /\ resumo.total_nao_validadas =
                      Cardinality(DOMAIN project_data[p]) - N("valid") - N("invalid") - N("extra")]_vars

----------------------------------------------------------------------------
(* The selection page *)

\* The structures of the project store that the selection page lists
Listed(p) ==
    {s \in DOMAIN project_data[p] :
        ~(HasRecord(validation_data, p, s)
          /\ RecordAt(validation_data, <<p, s>>).status = "extra")}

\* The step is a select_structure GET for a project of the project store that
\* has an entry in the validation store
SelectViewed ==
    /\ last'.route = "select_structure" /\ last'.method = "GET"
    /\ last'.project \in DOMAIN project_data
    /\ "validations" \in DOMAIN validation_data
    /\ last'.project \in DOMAIN validation_data.validations

\* C28: a select_structure GET for an existing project renders its page
\* without an unhandled failure when the project has at least one non-extra
\* structure, whatever their number.
C28_SelectRenders ==
    [][(SelectViewed /\ Listed(last'.project) # {}) => last'.outcome = "render"]_vars

\* The page is rendered exactly when the project lists three structures or more
C28_RendersFromThree ==
    [][SelectViewed
        => (last'.outcome = "render" <=> Cardinality(Listed(last'.project)) >= 3)]_vars

\* The request has failed for a project that lists one structure
C28_FailsWithOne ==
    /\ last.route = "select_structure" /\ last.method = "GET"
    /\ last.outcome = "error"
    /\ last.project \in DOMAIN project_data
    /\ Cardinality(Listed(last.project)) = 1

----------------------------------------------------------------------------
(* The two ends shown on the map *)

\* The step renders the selection page
SelectRendered ==
    /\ last'.route = "select_structure" /\ last'.method = "GET"
    /\ last'.outcome = "render"

\* C30: the 'lado B' end that select_structure shows on the map is the
\* structure from which a side-B validation starts, the last of the side-A
\* order, and 'lado A' is the first of the side-A order, for every project
\* size.
C30_EndsAreWhereValidationStarts ==
    [][SelectRendered
        => LET ordered == OrderedStructures(validation_data, project_data, last'.project)
           IN  /\ last'.lado_a = TraversalOrder(ordered, "A")[1]
               /\ last'.lado_b = TraversalOrder(ordered, "B")[1]]_vars

\* The page of a project of four structures or more, whose 'lado B' is the
\* third structure and not the last
C30_ThirdShownAsLadoB ==
    /\ last.route = "select_structure" /\ last.method = "GET"
    /\ last.outcome = "render"
    /\ Cardinality(Listed(last.project)) >= 4
    /\ LET ordered == OrderedStructures(validation_data, project_data, last.project)
       IN  /\ last.lado_b = ordered[3]
           /\ last.lado_b # ordered[Len(ordered)]

\* With exactly three structures listed the two ends are the ends of the order
C30_EndsOfThree ==
    [][(SelectRendered /\ Cardinality(Listed(last'.project)) = 3)
        => LET ordered == OrderedStructures(validation_data, project_data, last'.project)
           IN  /\ last'.lado_a = ordered[1]
               /\ last'.lado_b = ordered[Len(ordered)]]_vars

----------------------------------------------------------------------------
(* Two inspectors and one inference file *)

\* Inspector c gets the results page in the step
Views(c) ==
    /\ inflight[c].route = "results"
    /\ inflight'[c].route = ""
    /\ last'.route = "results" /\ last'.method = "GET"

\* C29: under any interleaving of two inspectors' upload_photo and results
\* requests, the output.json read by a results GET is the one written by that
\* inspector's own preceding upload.
C29_ReadsOwnInference ==
    [][\A c \in {"a", "b"} :
           Views(c) => output_json = [exists |-> TRUE, doc |-> inflight[c].snapshot]]_vars

\* Inspector a is about to see the results of E1 while output.json holds the
\* inference of the photo inspector b uploaded for E2
C29_OtherInferenceOnDisk ==
    /\ inflight["a"].route = "results" /\ inflight["a"].structure = E1
    /\ inflight["b"].route = "results" /\ inflight["b"].structure = E2
    /\ inflight["a"].snapshot # inflight["b"].snapshot
    /\ output_json.exists
    /\ output_json.doc = inflight["b"].snapshot

=============================================================================
